---- MODULE Spec2Model ----
(***************************************************************************)
(* A model of the bibliographic pipeline of the OHCA survivorship          *)
(* repository: the corpus normalizer (src/src/utils/normalizer.ts) and the *)
(* record resolver (src/src/utils/paperFetcher.ts).                        *)
(*                                                                         *)
(* JavaScript values are modelled as follows.  An object is a function     *)
(* whose DOMAIN is the set of keys the object holds; a key that is held    *)
(* with the value undefined maps to Undefined (for strings) or             *)
(* UndefinedList (for arrays).  Strings are TLA+ strings, arrays are       *)
(* sequences.  Booleans stored in an object are the strings "true" and     *)
(* "false", so that they can share a key with Undefined.                   *)
(***************************************************************************)
EXTENDS Integers, Sequences, FiniteSets, TLC

VARIABLES
  \* ---- deduplicate (normalizer.ts) ----
  papers,      \* the input array handed to deduplicate
  dedupDone,   \* FALSE before the call, TRUE once it has returned
  deduped,     \* the array returned by deduplicate
  keptIdx,     \* the input positions of the returned elements, in order
  \* ---- mergeRecords (paperFetcher.ts) ----
  preferred,   \* first argument of mergeRecords
  fallback,    \* second argument of mergeRecords
  mergeDone,   \* FALSE before the call, TRUE once it has returned
  merged,      \* the record returned by mergeRecords
  \* ---- fetchPaperByIdentifier (paperFetcher.ts) ----
  opts,        \* the options argument: doi, pmid, pmcid ("" when not given)
  rpc,         \* where the call stands: start, or the response awaited, or done
  calls,       \* the requests handed to the fetcher so far, in order
  responses,   \* how each request was answered: ok, notok (status), rejected
  raised,      \* the exception other than a LookupError a provider call threw
  linkPayload, \* the JSON payload the link lookup answered with
  crossref,    \* the record fetchCrossrefMetadata returned
  pubmed,      \* the record fetchPubMedMetadata returned
  outcome,     \* pending, or how the call ended: record, LookupError, Error
  result,      \* the record the call resolved with
  thrown,      \* the exception the call rejected with
  \* ---- normalizeRecords (normalizer.ts) ----
  corpus,      \* the input array handed to normalizeRecords
  normDone,    \* FALSE before the call, TRUE once it has returned
  normalized,  \* the array returned by normalizeRecords
  \* ---- one stored record under enrichCountryForPaper and normalize ----
  stored,      \* the record as it stands
  firstCorr,   \* the corrected-country fields the record first carried
  applied,     \* the number of operations applied to the record so far
  \* ---- one call of applySearch ----
  allPapers,   \* the corpus handed to applySearch
  searchState, \* the SearchState handed to applySearch
  searchDone,  \* FALSE before the call, TRUE once it has returned
  fuseCalls,   \* the query strings handed to fuse.search, in order
  plainHits,   \* what the plain matcher yields for the query as given
  ranked,      \* the good fuzzy results after the sort, scores included
  found,       \* the array returned by applySearch
  \* ---- one round trip of a search state through a URL ----
  tripIn,      \* the state, the URL's parameters and the defaults handed in
  tripDone,    \* FALSE before the round trip, TRUE once it has returned
  tripUrl,     \* the URL's parameters after serializeStateToUrl
  tripOut,     \* the state returned by parseStateFromUrl
  \* ---- the browse page ----
  browseStart,   \* the query text of window.location.href when the page loads
  browseHref,    \* the query text of window.location.href now
  browseMounted, \* TRUE once useSearchState has run
  browseState,   \* the state held by useState
  browseLast,    \* the handler that ran last, its input and the state before it
  browseChanges, \* how many handlers ran
  \* ---- the batch country enrichment ----
  batchRaw,        \* the raw store, data/papers.json
  batchNormalized, \* the normalized store, data/papers.normalized.json
  batchDryRun,     \* whether --dry-run was given
  batchPc,         \* where main stands: "start", "loop", "done" or "aborted"
  batchRecords,    \* the records main loaded
  batchEnriched,   \* enrichedById
  batchCalls,      \* the calls of enrichCountryForPaper made so far
  \* ---- adding a paper, one operation after the other ----
  addRaw,        \* the raw store, data/papers.json
  addNormalized, \* the normalized store, data/papers.normalized.json
  addLast,       \* the last operation: its input, its outcome, the stores before
  addCount,      \* how many operations ran
  \* ---- adding papers by concurrent POST requests ----
  postRaw,        \* the raw store
  postNormalized, \* the normalized store
  posts           \* each request: where it stands and what it holds

dedupVars == <<papers, dedupDone, deduped, keptIdx>>

mergeVars == <<preferred, fallback, mergeDone, merged>>

resolveVars ==
  <<opts, rpc, calls, responses, raised, linkPayload, crossref, pubmed, outcome, result,
    thrown>>

normVars == <<corpus, normDone, normalized>>

countryVars == <<stored, firstCorr, applied>>

searchVars == <<allPapers, searchState, searchDone, fuseCalls, plainHits, ranked, found>>

tripVars == <<tripIn, tripDone, tripUrl, tripOut>>

browseVars ==
  <<browseStart, browseHref, browseMounted, browseState, browseLast, browseChanges>>

batchVars ==
  <<batchRaw, batchNormalized, batchDryRun, batchPc, batchRecords, batchEnriched,
    batchCalls>>

addVars == <<addRaw, addNormalized, addLast, addCount>>

postVars == <<postRaw, postNormalized, posts>>

vars ==
  <<papers, dedupDone, deduped, keptIdx, preferred, fallback, mergeDone, merged,
    opts, rpc, calls, responses, raised, linkPayload, crossref, pubmed, outcome, result,
    thrown, corpus, normDone, normalized, stored, firstCorr, applied,
    allPapers, searchState, searchDone, fuseCalls, plainHits, ranked, found,
    tripIn, tripDone, tripUrl, tripOut,
    browseStart, browseHref, browseMounted, browseState, browseLast, browseChanges,
    batchRaw, batchNormalized, batchDryRun, batchPc, batchRecords, batchEnriched,
    batchCalls, addRaw, addNormalized, addLast, addCount, postRaw, postNormalized, posts>>

\* ---------------------------------------------------------------- bounds
\* Longest input array handed to deduplicate.
MaxPapers == 3

\* A link-lookup response holds at most this many link sets, and at most this
\* many link-set databases in all.
MaxLinkDbs == 2

\* Longest input array handed to normalizeRecords.
MaxCorpus == 2

\* Most operations applied to one stored record.
MaxApplied == 3

\* The largest corpus handed to applySearch.
MaxSearchPapers == 2

\* ------------------------------------------------------- JavaScript values
Undefined == "<undefined>"

UndefinedList == <<Undefined>>

UndefinedObject == [undefined |-> Undefined]

\* The object literal {}.
EmptyObject == [k \in {} |-> Undefined]

\* obj.key for a string, an array and an object valued key; a key the object
\* does not hold reads as undefined.
GetStr(obj, key) == IF key \in DOMAIN obj THEN obj[key] ELSE Undefined

GetList(obj, key) == IF key \in DOMAIN obj THEN obj[key] ELSE UndefinedList

GetObj(obj, key) == IF key \in DOMAIN obj THEN obj[key] ELSE UndefinedObject

\* The object literal { ...first, ...second }: every key of either operand,
\* the second operand's value winning, also when that value is undefined.
\* Spreading undefined adds no key.
SpreadOperand(obj) == IF obj = UndefinedObject THEN EmptyObject ELSE obj

Spread(first, second) ==
  LET a == SpreadOperand(first)
      b == SpreadOperand(second)
  IN [k \in DOMAIN a \cup DOMAIN b |-> IF k \in DOMAIN b THEN b[k] ELSE a[k]]

\* JavaScript truthiness of a string-or-undefined value.
Truthy(v) == v # Undefined /\ v # ""

\* ------------------------------------------------------------- strings
\* The character of s at position i (1-based), as a string of length 1.
Char(s, i) == SubSeq(s, i, i)

\* The letters, small and capital, in alphabetical order.
SmallLetters ==
  <<"a", "b", "c", "d", "e", "f", "g", "h", "i", "j", "k", "l", "m",
    "n", "o", "p", "q", "r", "s", "t", "u", "v", "w", "x", "y", "z">>

CapitalLetters ==
  <<"A", "B", "C", "D", "E", "F", "G", "H", "I", "J", "K", "L", "M",
    "N", "O", "P", "Q", "R", "S", "T", "U", "V", "W", "X", "Y", "Z">>

LetterCount == Len(SmallLetters)

LowerOfCapital == [c \in {CapitalLetters[i] : i \in 1..LetterCount} |->
                     SmallLetters[CHOOSE i \in 1..LetterCount : CapitalLetters[i] = c]]

CapitalOfLower == [c \in {SmallLetters[i] : i \in 1..LetterCount} |->
                     CapitalLetters[CHOOSE i \in 1..LetterCount : SmallLetters[i] = c]]

LowerChar(c) == IF c \in DOMAIN LowerOfCapital THEN LowerOfCapital[c] ELSE c

UpperChar(c) == IF c \in DOMAIN CapitalOfLower THEN CapitalOfLower[c] ELSE c

\* String.prototype.toLowerCase, character by character.
RECURSIVE LowerFrom(_, _)
LowerFrom(s, i) == IF i > Len(s) THEN "" ELSE LowerChar(Char(s, i)) \o LowerFrom(s, i + 1)

ToLowerCase(s) == LowerFrom(s, 1)

\* String.prototype.toUpperCase, character by character.
RECURSIVE UpperFrom(_, _)
UpperFrom(s, i) == IF i > Len(s) THEN "" ELSE UpperChar(Char(s, i)) \o UpperFrom(s, i + 1)

ToUpperCase(s) == UpperFrom(s, 1)

\* The white space of the model's strings (the class \s of the regular
\* expressions, and what trim removes).
Whitespace == {" ", "\t"}

\* The first position at or after i that holds no white space, Len(s) + 1 when
\* there is none; the last position at or before i that holds none, 0 when
\* there is none.
RECURSIVE SkipSpace(_, _)
SkipSpace(s, i) ==
  IF i > Len(s) THEN i ELSE IF Char(s, i) \in Whitespace THEN SkipSpace(s, i + 1) ELSE i

RECURSIVE SkipSpaceBack(_, _)
SkipSpaceBack(s, i) ==
  IF i < 1 THEN i ELSE IF Char(s, i) \in Whitespace THEN SkipSpaceBack(s, i - 1) ELSE i

\* String.prototype.trim.
Trim(s) == SubSeq(s, SkipSpace(s, 1), SkipSpaceBack(s, Len(s)))

\* value?.toLowerCase(): undefined stays undefined.
OptLower(v) == IF v = Undefined THEN Undefined ELSE ToLowerCase(v)

\* ------------------------------------------------------------ deduplicate
\* The identifying fields of a stored record (types.ts RawPaper).
DedupIds == {"i1", "i2"}

DedupDois == {"", "10.1/a", "10.1/A", "10.1/b"}

DedupPmids == {Undefined, "11", "22"}

DedupPapers == [id : DedupIds, doi : DedupDois, pmid : DedupPmids]

RECURSIVE SeqsUpTo(_, _)
SeqsUpTo(S, n) ==
  IF n = 0 THEN {<<>>}
  ELSE LET shorter == SeqsUpTo(S, n - 1)
       IN shorter \cup {Append(s, x) : s \in {t \in shorter : Len(t) = n - 1}, x \in S}

\* The state of the loop of deduplicate before its first iteration.
DedupStart == [seenDois |-> {}, seenPmids |-> {}, result |-> <<>>, kept |-> <<>>]

\* A deduplicate that compares the identifiers as written.
DedupStepCaseSensitive(st, input, i) ==
  LET paper == input[i]
      doiKey == GetStr(paper, "doi")
      pmidKey == GetStr(paper, "pmid")
  IN IF Truthy(doiKey) /\ doiKey \in st.seenDois THEN st
     ELSE LET st1 == IF Truthy(doiKey)
                     THEN [st EXCEPT !.seenDois = @ \cup {doiKey}] ELSE st
          IN IF Truthy(pmidKey) /\ pmidKey \in st1.seenPmids THEN st1
             ELSE LET st2 == IF Truthy(pmidKey)
                             THEN [st1 EXCEPT !.seenPmids = @ \cup {pmidKey}] ELSE st1
                  IN [st2 EXCEPT !.result = Append(@, paper), !.kept = Append(@, i)]

\* A deduplicate that looks up and registers the keys without testing that
\* they are non-empty.
DedupStepKeysUnguarded(st, input, i) ==
  LET paper == input[i]
      doiKey == OptLower(GetStr(paper, "doi"))
      pmidKey == OptLower(GetStr(paper, "pmid"))
  IN IF doiKey \in st.seenDois THEN st
     ELSE LET st1 == [st EXCEPT !.seenDois = @ \cup {doiKey}]
          IN IF pmidKey \in st1.seenPmids THEN st1
             ELSE [st1 EXCEPT !.seenPmids = @ \cup {pmidKey},
                              !.result = Append(@, paper), !.kept = Append(@, i)]

\* One iteration of the loop of deduplicate on input[i].  `kept` records the
\* positions pushed to `result`.
DedupStep(st, input, i) ==
  LET paper == input[i]
      doiKey == OptLower(GetStr(paper, "doi"))
      pmidKey == OptLower(GetStr(paper, "pmid"))
  IN IF Truthy(doiKey) /\ doiKey \in st.seenDois THEN st
     ELSE LET st1 == IF Truthy(doiKey)
                     THEN [st EXCEPT !.seenDois = @ \cup {doiKey}] ELSE st
          IN IF Truthy(pmidKey) /\ pmidKey \in st1.seenPmids THEN st1
             ELSE LET st2 == IF Truthy(pmidKey)
                             THEN [st1 EXCEPT !.seenPmids = @ \cup {pmidKey}] ELSE st1
                  IN [st2 EXCEPT !.result = Append(@, paper), !.kept = Append(@, i)]

RECURSIVE DedupLoop(_, _, _)
DedupLoop(st, input, i) ==
  IF i > Len(input) THEN st ELSE DedupLoop(DedupStep(st, input, i), input, i + 1)

\* deduplicate(papers): the loop run over the whole input.
DedupScan(input) == DedupLoop(DedupStart, input, 1)

deduplicate(input) == DedupScan(input).result

DedupIdle ==
  /\ papers = <<>>
  /\ dedupDone = TRUE
  /\ deduped = <<>>
  /\ keptIdx = <<>>

MergeIdle ==
  /\ preferred = EmptyObject
  /\ fallback = EmptyObject
  /\ mergeDone = TRUE
  /\ merged = EmptyObject

ResolveIdle ==
  /\ opts = [doi |-> "", pmid |-> "", pmcid |-> ""]
  /\ rpc = "done"
  /\ calls = <<>>
  /\ responses = <<>>
  /\ raised = ""
  /\ linkPayload = <<>>
  /\ crossref = EmptyObject
  /\ pubmed = EmptyObject
  /\ outcome = "LookupError"
  /\ result = EmptyObject
  /\ thrown = "A DOI, PubMed ID, or PubMed Central ID is required."

NormIdle ==
  /\ corpus = <<>>
  /\ normDone = TRUE
  /\ normalized = <<>>

CountryIdle ==
  /\ stored = EmptyObject
  /\ firstCorr = EmptyObject
  /\ applied = 0

SearchIdle ==
  /\ allPapers = <<>>
  /\ searchState = EmptyObject
  /\ searchDone = TRUE
  /\ fuseCalls = <<>>
  /\ plainHits = <<>>
  /\ ranked = <<>>
  /\ found = <<>>

TripIdle ==
  /\ tripIn = EmptyObject
  /\ tripDone = TRUE
  /\ tripUrl = <<>>
  /\ tripOut = EmptyObject

BrowseIdle ==
  /\ browseStart = ""
  /\ browseHref = ""
  /\ browseMounted = TRUE
  /\ browseState = EmptyObject
  /\ browseLast = EmptyObject
  /\ browseChanges = 0

BatchIdle ==
  /\ batchRaw = <<>>
  /\ batchNormalized = <<>>
  /\ batchDryRun = FALSE
  /\ batchPc = "done"
  /\ batchRecords = <<>>
  /\ batchEnriched = EmptyObject
  /\ batchCalls = <<>>

AddIdle ==
  /\ addRaw = <<>>
  /\ addNormalized = <<>>
  /\ addLast = EmptyObject
  /\ addCount = 0

PostIdle ==
  /\ postRaw = <<>>
  /\ postNormalized = <<>>
  /\ posts = <<>>

InitDedup ==
  /\ papers \in SeqsUpTo(DedupPapers, MaxPapers)
  /\ dedupDone = FALSE
  /\ deduped = <<>>
  /\ keptIdx = <<>>
  /\ MergeIdle
  /\ ResolveIdle
  /\ NormIdle
  /\ CountryIdle
  /\ SearchIdle
  /\ TripIdle
  /\ BrowseIdle
  /\ BatchIdle
  /\ AddIdle
  /\ PostIdle

\* The call deduplicate(papers).
Deduplicate ==
  /\ ~dedupDone
  /\ dedupDone' = TRUE
  /\ deduped' = deduplicate(papers)
  /\ keptIdx' = DedupScan(papers).kept
  /\ UNCHANGED papers
  /\ UNCHANGED <<mergeVars, resolveVars, normVars, countryVars, searchVars, tripVars, browseVars, batchVars, addVars, postVars>>

NextDedup == Deduplicate

SpecDedup == InitDedup /\ [][NextDedup]_vars

\* Two records share a non-empty DOI, or a non-empty PMID, case-insensitively.
ShareDoi(a, b) == Truthy(a.doi) /\ Truthy(b.doi) /\ ToLowerCase(a.doi) = ToLowerCase(b.doi)

SharePmid(a, b) ==
  Truthy(a.pmid) /\ Truthy(b.pmid) /\ ToLowerCase(a.pmid) = ToLowerCase(b.pmid)

\* C1: the output of deduplicate holds no two distinct elements that share a
\* non-empty DOI, and no two that share a non-empty PMID, compared
\* case-insensitively.
C1_NoSharedDoiOrPmid ==
  dedupDone =>
    \A i, j \in 1..Len(deduped) :
      i # j => ~ShareDoi(deduped[i], deduped[j]) /\ ~SharePmid(deduped[i], deduped[j])

\* A run in which deduplicate dropped a record that differs from a kept one
\* only in the case of its DOI, and another that repeats a PMID.
C1_Witness ==
  /\ dedupDone
  /\ Len(papers) = 3
  /\ Len(deduped) = 1
  /\ papers[1].doi = "10.1/a" /\ papers[2].doi = "10.1/A"
  /\ papers[1].pmid = "11" /\ papers[3].pmid = "11" /\ papers[3].doi = "10.1/b"

\* The set of input positions kept by deduplicate.
KeptSet == {keptIdx[k] : k \in 1..Len(keptIdx)}

\* deduped is a subsequence of papers, in input order.
DedupIsSubsequence ==
  /\ Len(keptIdx) = Len(deduped)
  /\ \A k \in 1..Len(deduped) :
       keptIdx[k] \in 1..Len(papers) /\ deduped[k] = papers[keptIdx[k]]
  /\ \A k \in 1..(Len(keptIdx) - 1) : keptIdx[k] < keptIdx[k + 1]

DedupFirstKept == Len(papers) > 0 => (Len(deduped) > 0 /\ deduped[1] = papers[1])

\* Of two input records that share a DOI or a PMID, the later one is not kept.
DedupEarliestKept ==
  \A i, j \in 1..Len(papers) :
    (i < j /\ (ShareDoi(papers[i], papers[j]) \/ SharePmid(papers[i], papers[j])))
      => j \notin KeptSet

\* C2: deduplicate is first-occurrence-wins and order-preserving: the output is
\* a subsequence of the input in input order, the first input record is kept,
\* and among input records that share a DOI or PMID the one kept is the
\* earliest in the input.
C2_FirstOccurrenceWins ==
  dedupDone => DedupIsSubsequence /\ DedupFirstKept /\ DedupEarliestKept

\* ----------------------------------------------------------- mergeRecords
LinkKeys == {"doi", "pubmed", "pmc"}

FlagKeys == {"open_access", "has_fulltext"}

\* A cleanLinks that returns the mapping as written, undefined entries included.
cleanLinksKeepsAll(links) == links

\* cleanLinks: the keys whose value is truthy.
cleanLinks(links) ==
  [k \in {key \in DOMAIN links : Truthy(links[key])} |-> links[k]]

\* cleanFlags: undefined for undefined; else the keys whose value is not
\* undefined, and undefined when none is left.
cleanFlags(flags) ==
  IF flags = UndefinedObject THEN UndefinedObject
  ELSE LET keys == {key \in DOMAIN flags : flags[key] # Undefined}
       IN IF keys = {} THEN UndefinedObject ELSE [k \in keys |-> flags[k]]

\* array?.length as a condition: false for undefined and for [].
HasLength(list) == list # UndefinedList /\ Len(list) > 0

\* A mergeRecords whose spreads are written in the wrong order: the fallback
\* overrides the preferred record in links and flags.
mergeRecordsFallbackFirst(pref, fall) ==
  LET links == cleanLinks(Spread(pref["links"], fall["links"]))
      flags == cleanFlags(Spread(GetObj(pref, "flags"), GetObj(fall, "flags")))
      authors == IF Len(pref["authors"]) > 0 THEN pref["authors"] ELSE fall["authors"]
      abstract == IF Truthy(pref["abstract"]) THEN pref["abstract"]
                  ELSE IF Truthy(fall["abstract"]) THEN fall["abstract"] ELSE ""
      keywords == IF HasLength(GetList(pref, "keywords"))
                  THEN pref["keywords"] ELSE GetList(fall, "keywords")
      mesh == IF HasLength(GetList(pref, "mesh")) THEN pref["mesh"] ELSE GetList(fall, "mesh")
  IN Spread(Spread(fall, pref),
            [authors |-> authors, abstract |-> abstract, keywords |-> keywords,
             mesh |-> mesh, links |-> links, flags |-> flags])

\* A mergeRecords that keeps the preferred record's text fields even when they
\* are empty (a plain shallow merge).
mergeRecordsShallow(pref, fall) ==
  LET links == cleanLinks(Spread(fall["links"], pref["links"]))
      flags == cleanFlags(Spread(GetObj(fall, "flags"), GetObj(pref, "flags")))
  IN Spread(Spread(fall, pref), [links |-> links, flags |-> flags])

\* mergeRecords(preferred, fallback).
mergeRecords(pref, fall) ==
  LET links == cleanLinks(Spread(fall["links"], pref["links"]))
      flags == cleanFlags(Spread(GetObj(fall, "flags"), GetObj(pref, "flags")))
      authors == IF Len(pref["authors"]) > 0 THEN pref["authors"] ELSE fall["authors"]
      abstract == IF Truthy(pref["abstract"]) THEN pref["abstract"]
                  ELSE IF Truthy(fall["abstract"]) THEN fall["abstract"] ELSE ""
      keywords == IF HasLength(GetList(pref, "keywords"))
                  THEN pref["keywords"] ELSE GetList(fall, "keywords")
      mesh == IF HasLength(GetList(pref, "mesh")) THEN pref["mesh"] ELSE GetList(fall, "mesh")
  IN Spread(Spread(fall, pref),
            [authors |-> authors, abstract |-> abstract, keywords |-> keywords,
             mesh |-> mesh, links |-> links, flags |-> flags])

\* The records handed to mergeRecords in the check of the function on its
\* own: RawPaper objects whose required keys are held and whose links and
\* flags are as cleanLinks and cleanFlags leave them (every record reaches
\* mergeRecords through them, paperFetcher.ts lines 240-247 and 439-447).
\* A record varies either in its text fields or in its two mappings.
MergeBase ==
  [id |-> "12345678", title |-> "Example", journal |-> "J", year |-> 2024,
   authors |-> <<"Doe JA">>, abstract |-> "Background.", links |-> EmptyObject]

\* obj with key added (or overwritten).
With(obj, key, value) ==
  [k \in DOMAIN obj \cup {key} |-> IF k = key THEN value ELSE obj[k]]

\* obj with key added unless the choice is "absent".
Absent == "<absent>"

AbsentList == <<Absent>>

AbsentObject == [absent |-> Absent]

OptStr(obj, key, value) == IF value = Absent THEN obj ELSE With(obj, key, value)

OptList(obj, key, value) == IF value = AbsentList THEN obj ELSE With(obj, key, value)

OptObj(obj, key, value) == IF value = AbsentObject THEN obj ELSE With(obj, key, value)

MergeAuthors == {<<>>, <<"Doe JA", "Research Group">>, <<"Doe, Jane">>}

MergeAbstracts == {"", "BACKGROUND: Background text.", "This is important science."}

MergeKeywords == {AbsentList, UndefinedList, <<>>, <<"cardiac arrest">>, <<"Recovery">>}

MergeMesh == {AbsentList, <<>>, <<"Heart Arrest">>, <<"Coma">>}

MergeTextVariants ==
  {OptList(OptList(With(With(MergeBase, "authors", a), "abstract", b), "keywords", k),
           "mesh", m) :
     a \in MergeAuthors, b \in MergeAbstracts, k \in MergeKeywords, m \in MergeMesh}

\* The link mappings: each key absent or holding a URL.
MergeLinkMaps ==
  {OptStr(OptStr(OptStr(EmptyObject, "doi", d), "pubmed", q), "pmc", c) :
     d \in {Absent, "https://doi.org/10.1/a", "https://doi.org/10.1/b"},
     q \in {Absent, "https://pubmed.ncbi.nlm.nih.gov/11"},
     c \in {Absent, "https://www.ncbi.nlm.nih.gov/pmc/articles/PMC7"}}

\* The flag mappings: no flags key, flags undefined, or each key absent or
\* holding a boolean, at least one key being held.
MergeFlagMaps ==
  {AbsentObject, UndefinedObject} \cup
  ({OptStr(OptStr(EmptyObject, "open_access", o), "has_fulltext", h) :
      o \in {Absent, "true", "false"}, h \in {Absent, "true"}} \ {EmptyObject})

MergeMapVariants ==
  {OptObj(With(MergeBase, "links", l), "flags", f) : l \in MergeLinkMaps, f \in MergeFlagMaps}

MergeInputs == MergeTextVariants \cup MergeMapVariants

InitMerge ==
  /\ preferred \in MergeInputs
  /\ fallback \in MergeInputs
  /\ mergeDone = FALSE
  /\ merged = EmptyObject
  /\ DedupIdle
  /\ ResolveIdle
  /\ NormIdle
  /\ CountryIdle
  /\ SearchIdle
  /\ TripIdle
  /\ BrowseIdle
  /\ BatchIdle
  /\ AddIdle
  /\ PostIdle

\* The call mergeRecords(preferred, fallback).
Merge ==
  /\ ~mergeDone
  /\ mergeDone' = TRUE
  /\ merged' = mergeRecords(preferred, fallback)
  /\ UNCHANGED <<preferred, fallback>>
  /\ UNCHANGED <<dedupVars, resolveVars, normVars, countryVars, searchVars, tripVars, browseVars, batchVars, addVars, postVars>>

NextMerge == Merge

SpecMerge == InitMerge /\ [][NextMerge]_vars

\* C9: merge(preferred, fallback) takes authors, abstract, keywords and mesh
\* each from preferred when preferred's value is non-empty and from fallback
\* otherwise, abstract being the empty string when both are empty.
C9_TextFieldsPreferNonEmpty ==
  mergeDone =>
    /\ merged["authors"] =
         IF preferred["authors"] # <<>> THEN preferred["authors"] ELSE fallback["authors"]
    /\ merged["abstract"] =
         IF preferred["abstract"] # "" THEN preferred["abstract"] ELSE fallback["abstract"]
    /\ (preferred["abstract"] = "" /\ fallback["abstract"] = "") => merged["abstract"] = ""
    /\ \A key \in {"keywords", "mesh"} :
         GetList(merged, key) =
           IF GetList(preferred, key) \notin {UndefinedList, <<>>}
           THEN preferred[key] ELSE GetList(fallback, key)

\* A merge in which the biomedical record has no authors, abstract, keywords or
\* mesh and the registry record supplies all four.
C9_Witness ==
  /\ mergeDone
  /\ preferred["authors"] = <<>> /\ preferred["abstract"] = ""
  /\ "keywords" \in DOMAIN preferred /\ preferred["keywords"] = <<>>
  /\ "mesh" \notin DOMAIN preferred
  /\ fallback["authors"] = <<"Doe, Jane">>
  /\ fallback["abstract"] = "This is important science."
  /\ "keywords" \in DOMAIN fallback /\ fallback["keywords"] = <<"Recovery">>
  /\ "mesh" \in DOMAIN fallback /\ fallback["mesh"] = <<"Coma">>
  /\ merged["authors"] = <<"Doe, Jane">>
  /\ merged["keywords"] = <<"Recovery">>

\* The mapping a record holds under key: the empty mapping when the key is
\* not held or holds undefined.
MapOf(obj, key) == SpreadOperand(GetObj(obj, key))

KeyWiseUnion(key, keys) ==
  \A k \in keys :
    /\ k \in DOMAIN MapOf(preferred, key) =>
         k \in DOMAIN MapOf(merged, key) /\ MapOf(merged, key)[k] = MapOf(preferred, key)[k]
    /\ (k \notin DOMAIN MapOf(preferred, key) /\ k \in DOMAIN MapOf(fallback, key)) =>
         k \in DOMAIN MapOf(merged, key) /\ MapOf(merged, key)[k] = MapOf(fallback, key)[k]
    /\ (k \notin DOMAIN MapOf(preferred, key) /\ k \notin DOMAIN MapOf(fallback, key)) =>
         k \notin DOMAIN MapOf(merged, key)

\* C10: the links and the flags of merge(preferred, fallback) are the key-wise
\* union of both records' mappings: a key present in preferred carries
\* preferred's value, a key present only in fallback carries fallback's, and a
\* key present in neither is absent.
C10_LinksFlagsUnion ==
  mergeDone =>
    /\ KeyWiseUnion("links", LinkKeys)
    /\ KeyWiseUnion("flags", FlagKeys)
    /\ DOMAIN MapOf(merged, "links") \subseteq LinkKeys
    /\ DOMAIN MapOf(merged, "flags") \subseteq FlagKeys

\* A merge in which both records hold the doi link and the open_access flag
\* with different values, and each holds a key the other lacks.
C10_Witness ==
  /\ mergeDone
  /\ DOMAIN preferred["links"] = {"doi", "pubmed"}
  /\ DOMAIN fallback["links"] = {"doi", "pmc"}
  /\ preferred["links"]["doi"] # fallback["links"]["doi"]
  /\ DOMAIN MapOf(preferred, "flags") = {"open_access"}
  /\ DOMAIN MapOf(fallback, "flags") = {"open_access", "has_fulltext"}
  /\ preferred["flags"]["open_access"] = "false"
  /\ fallback["flags"]["open_access"] = "true"
  /\ DOMAIN merged["links"] = LinkKeys
  /\ merged["flags"]["open_access"] = "false"

\* ---------------------------------------------------- resolvePmidFromPmcid
\* The PMCID as sent to the link lookup: trimmed, upper-cased when it starts
\* with PMC, else prefixed with PMC.
StartsWithPMC(s) == Len(s) >= 3 /\ SubSeq(s, 1, 3) = "PMC"

NormalizePmcid(pmcid) ==
  LET trimmed == Trim(pmcid)
  IN IF StartsWithPMC(ToUpperCase(trimmed)) THEN ToUpperCase(trimmed) ELSE "PMC" \o trimmed

\* A link-set database of the link-lookup payload: its dbto (Undefined when
\* the key is missing) and its links[0] as a string ("" when there is none).
LinkDbKinds ==
  { [dbto |-> "pmc", first |-> "99"],
    [dbto |-> "pubmed", first |-> ""],
    [dbto |-> "pubmed", first |-> " "],
    [dbto |-> "PubMed", first |-> "33"],
    [dbto |-> Undefined, first |-> "44"] }

\* The payloads: a sequence of link sets, each a sequence of databases.
RECURSIVE LinkPayloadsOf(_, _)
LinkPayloadsOf(sets, budget) ==
  IF sets = 0 THEN {<<>>}
  ELSE {<<>>} \cup
       UNION { { <<dbs>> \o rest : rest \in LinkPayloadsOf(sets - 1, budget - Len(dbs)) } :
               dbs \in SeqsUpTo(LinkDbKinds, budget) }

LinkPayloads == LinkPayloadsOf(MaxLinkDbs, MaxLinkDbs)

\* The body of the inner loop for one database: the PMID it returns, or
\* Undefined when the loop moves on.  This variant accepts only a database
\* whose dbto names PubMed.
DbPmidStrict(db) ==
  IF ~Truthy(db.dbto) \/ ToLowerCase(db.dbto) # "pubmed" THEN Undefined
  ELSE IF Truthy(db.first) /\ Trim(db.first) # "" THEN Trim(db.first)
  ELSE Undefined

DbPmid(db) ==
  IF Truthy(db.dbto) /\ ToLowerCase(db.dbto) # "pubmed" THEN Undefined
  ELSE IF Truthy(db.first) /\ Trim(db.first) # "" THEN Trim(db.first)
  ELSE Undefined

RECURSIVE ScanDatabases(_, _)
ScanDatabases(dbs, i) ==
  IF i > Len(dbs) THEN Undefined
  ELSE IF DbPmid(dbs[i]) # Undefined THEN DbPmid(dbs[i])
  ELSE ScanDatabases(dbs, i + 1)

RECURSIVE ScanLinksets(_, _)
ScanLinksets(linksets, i) ==
  IF i > Len(linksets) THEN Undefined
  ELSE IF ScanDatabases(linksets[i], 1) # Undefined THEN ScanDatabases(linksets[i], 1)
  ELSE ScanLinksets(linksets, i + 1)

\* The PMID resolvePmidFromPmcid returns for a payload, Undefined when it
\* throws "Unable to resolve PMCID".
PmidOfLinkPayload(payload) == ScanLinksets(payload, 1)

\* ------------------------------------------------------- provider parsing
\* stripHtml on the strings of the model.
stripHtml(value) ==
  CASE value = Undefined -> ""
    [] value = "<jats:p>This is <b>important</b> science.</jats:p>" ->
         "This is important science."
    [] OTHER -> value

Pad2(n) == IF n < 10 THEN "0" \o ToString(n) ELSE ToString(n)

\* buildDate([year, month, day]) for a year and month and day strings.
buildDate(year, month, day) ==
  IF ~Truthy(year) THEN Undefined
  ELSE IF Truthy(month) /\ Truthy(day) THEN year \o "-" \o month \o "-" \o day
  ELSE IF Truthy(month) THEN year \o "-" \o month
  ELSE year

\* extractCrossrefAuthors: the name when held, else "family, given".
CrossrefAuthorName(author) ==
  IF Truthy(author.name) THEN Trim(author.name)
  ELSE IF Truthy(author.family) /\ Truthy(author.given)
       THEN author.family \o ", " \o author.given
  ELSE IF Truthy(author.family) THEN author.family
  ELSE IF Truthy(author.given) THEN author.given
  ELSE ""

RECURSIVE MapFilterNames(_, _, _)
MapFilterNames(Name(_), list, i) ==
  IF i > Len(list) THEN <<>>
  ELSE (IF Truthy(Name(list[i])) THEN <<Name(list[i])>> ELSE <<>>)
       \o MapFilterNames(Name, list, i + 1)

extractCrossrefAuthors(authors) ==
  IF authors = UndefinedList THEN <<>> ELSE MapFilterNames(CrossrefAuthorName, authors, 1)

\* extractCrossrefDate: the first date-parts array held, in the order print,
\* online, published, issued; a year and a date, or year 0 for undefined.
\* A date-parts array is a sequence of at most three numbers.
NoDate == [year |-> 0, date |-> Undefined]

\* The value undefined where a date-parts array is expected.
UndefinedParts == <<-1>>

\* An extractCrossrefDate that falls back to the epoch year when the message
\* holds no date.
extractCrossrefDateDefaults(message) ==
  LET parts == IF message.publishedPrint # UndefinedParts THEN message.publishedPrint
               ELSE IF message.publishedOnline # UndefinedParts THEN message.publishedOnline
               ELSE IF message.published # UndefinedParts THEN message.published
               ELSE message.issued
  IN IF parts = UndefinedParts \/ Len(parts) = 0 \/ parts[1] = 0
     THEN [year |-> 1970, date |-> Undefined]
     ELSE [year |-> parts[1], date |-> ToString(parts[1])]

extractCrossrefDate(message) ==
  LET parts == IF message.publishedPrint # UndefinedParts THEN message.publishedPrint
               ELSE IF message.publishedOnline # UndefinedParts THEN message.publishedOnline
               ELSE IF message.published # UndefinedParts THEN message.published
               ELSE message.issued
  IN IF parts = UndefinedParts \/ Len(parts) = 0 THEN NoDate
     ELSE IF parts[1] = 0 THEN NoDate
     ELSE [year |-> parts[1],
           date |-> buildDate(ToString(parts[1]),
                              IF Len(parts) >= 2 THEN Pad2(parts[2]) ELSE Undefined,
                              IF Len(parts) >= 3 THEN Pad2(parts[3]) ELSE Undefined)]

Identity(x) == x

\* What fetchCrossrefMetadata makes of a response payload: a LookupError
\* (lines 222-232) or the record of lines 248-261.  `trimmed` is the DOI asked
\* for, trimmed and lower-cased.
CrossrefParse(payload, trimmed) ==
  IF payload = UndefinedObject
    THEN [error |-> "Crossref response did not include work metadata."]
  ELSE LET message == payload
           title == IF Len(message.title) > 0 THEN Trim(message.title[1]) ELSE Undefined
           dateInfo == extractCrossrefDate(message)
           doiValue == IF message.DOI # Undefined THEN message.DOI ELSE trimmed
           pmidValue == IF Truthy(message.pubMedId) THEN message.pubMedId ELSE Undefined
           abstract == stripHtml(message.abstract)
           keywordSeed == IF message.subject = UndefinedList THEN UndefinedList
                          ELSE MapFilterNames(Identity, message.subject, 1)
           keywords == IF HasLength(keywordSeed) THEN keywordSeed ELSE UndefinedList
           links == cleanLinks(
                      [doi |-> IF Truthy(doiValue) THEN "https://doi.org/" \o doiValue
                               ELSE Undefined,
                       pubmed |-> IF Truthy(pmidValue)
                                  THEN "https://pubmed.ncbi.nlm.nih.gov/" \o pmidValue
                                  ELSE Undefined])
           flags == cleanFlags(
                      [open_access |-> IF HasLength(message.license) THEN "true" ELSE "false",
                       has_fulltext |-> IF HasLength(message.link) THEN "true" ELSE "false"])
       IN IF ~Truthy(title) THEN [error |-> "Crossref response is missing a title."]
          ELSE IF dateInfo.year = 0
            THEN [error |-> "Crossref response is missing a publication year."]
          ELSE [record |->
                 [id |-> IF pmidValue # Undefined THEN pmidValue ELSE doiValue,
                  pmid |-> pmidValue,
                  doi |-> doiValue,
                  title |-> title,
                  authors |-> extractCrossrefAuthors(message.author),
                  journal |-> IF Len(message.containerTitle) > 0
                              THEN Trim(message.containerTitle[1]) ELSE "",
                  year |-> dateInfo.year,
                  date |-> dateInfo.date,
                  abstract |-> abstract,
                  keywords |-> keywords,
                  links |-> links,
                  flags |-> flags]]

\* The XML parser turns numeric text into a number; the model keeps the text
\* and tells the numbers by it.
IsNumber(s) == s \in {"2024", "2023", "15", "7"}

\* Number(text) for the year texts of the model.
ToNumber(s) ==
  CASE s = "2024" -> 2024
    [] s = "2023" -> 2023
    [] s = "2022" -> 2022
    [] OTHER -> 0

\* monthToNumber on a month name: the mapping's entry, or undefined.
monthToNumber(month) ==
  IF ~Truthy(month) THEN Undefined
  ELSE CASE ToLowerCase(month) = "jul" -> "07"
         [] ToLowerCase(month) = "may" -> "05"
         [] OTHER -> Undefined

\* A date node: Year, Month, Day and MedlineDate, each a text or Undefined.
NoNode == [Year |-> Undefined, Month |-> Undefined, Day |-> Undefined, MedlineDate |-> Undefined]

\* String(day).padStart(2, '0') for a number, the text itself otherwise.
PadDay(day) ==
  IF day # Undefined /\ IsNumber(day) /\ Len(day) < 2 THEN "0" \o day ELSE day

\* The year and date of one date node that holds a Year.
DateOfNode(node) ==
  [year |-> ToNumber(node.Year),
   date |-> buildDate(node.Year,
                      IF monthToNumber(node.Month) # Undefined
                      THEN monthToNumber(node.Month) ELSE node.Month,
                      PadDay(node.Day))]

\* The first article date that holds a Year, NoNode when there is none.
RECURSIVE FindDated(_, _)
FindDated(nodes, i) ==
  IF i > Len(nodes) THEN NoNode
  ELSE IF Truthy(nodes[i].Year) THEN nodes[i] ELSE FindDated(nodes, i + 1)

\* The first four-digit run of a MedlineDate text.
MedlineYear(text) ==
  CASE text = "2022 Jul-Aug" -> "2022"
    [] OTHER -> Undefined

\* monthToNumber calls month.toLowerCase(): a TypeError when the parser made
\* the month a number.
MonthThrows(node) == node.Month # Undefined /\ IsNumber(node.Month)

\* extractPubDate: article date, else journal issue date, else MedlineDate.
extractPubDate(payload) ==
  LET articleDate == FindDated(payload.ArticleDate, 1)
      pubDate == payload.PubDate
  IN IF Truthy(articleDate.Year)
       THEN IF MonthThrows(articleDate)
            THEN [exception |-> "TypeError: month.toLowerCase is not a function"]
            ELSE DateOfNode(articleDate)
     ELSE IF Truthy(pubDate.Year)
       THEN IF MonthThrows(pubDate)
            THEN [exception |-> "TypeError: month.toLowerCase is not a function"]
            ELSE DateOfNode(pubDate)
     ELSE IF pubDate.MedlineDate # Undefined /\ MedlineYear(pubDate.MedlineDate) # Undefined
       THEN [year |-> ToNumber(MedlineYear(pubDate.MedlineDate)),
             date |-> MedlineYear(pubDate.MedlineDate)]
     ELSE NoDate

\* buildAuthorName.
buildAuthorName(author) ==
  IF Truthy(author.CollectiveName) THEN Trim(author.CollectiveName)
  ELSE IF ~Truthy(author.LastName) THEN Undefined
  ELSE IF Truthy(author.Initials) THEN author.LastName \o " " \o author.Initials
  ELSE IF Truthy(author.ForeName) THEN author.LastName \o ", " \o author.ForeName
  ELSE author.LastName

\* buildAbstract for one AbstractText node and for the list of them.
AbstractSegment(node) ==
  IF ~Truthy(node.text) THEN ""
  ELSE IF Truthy(node.Label) THEN node.Label \o ": " \o node.text
  ELSE node.text

RECURSIVE JoinLines(_, _)
JoinLines(list, i) ==
  IF i > Len(list) THEN ""
  ELSE IF i = Len(list) THEN list[i]
  ELSE list[i] \o "\n" \o JoinLines(list, i + 1)

buildAbstract(nodes) == JoinLines(MapFilterNames(AbstractSegment, nodes, 1), 1)

\* The text of the first article id of the given type, compared in lower case.
RECURSIVE FindArticleId(_, _, _)
FindArticleId(ids, type, i) ==
  IF i > Len(ids) THEN Undefined
  ELSE IF ids[i].IdType # Undefined /\ ToLowerCase(ids[i].IdType) = type THEN ids[i].text
  ELSE FindArticleId(ids, type, i + 1)

\* What fetchPubMedMetadata makes of a response body: a LookupError (lines
\* 389-437), an exception thrown while parsing, or the record of lines
\* 448-464.  `trimmed` is the PMID asked for, trimmed.
PubMedParse(payload, trimmed) ==
  IF ~payload.entry
    THEN [error |-> "PubMed response did not include an article record."]
  ELSE IF ~payload.citation THEN [error |-> "PubMed record is missing core citation data."]
  ELSE LET pmidValue == IF Truthy(payload.PMID) THEN payload.PMID ELSE Undefined
           title == Trim(payload.ArticleTitle)
           doiRaw == FindArticleId(payload.ArticleId, "doi", 1)
           pmcidRaw == FindArticleId(payload.ArticleId, "pmc", 1)
           doi == IF Truthy(doiRaw) THEN Trim(doiRaw) ELSE Undefined
           pmcid == IF Truthy(pmcidRaw) THEN Trim(pmcidRaw) ELSE Undefined
           dateInfo == extractPubDate(payload)
           authors == MapFilterNames(buildAuthorName, payload.Author, 1)
           keywords == MapFilterNames(Identity, payload.Keyword, 1)
           mesh == MapFilterNames(Identity, payload.MeshHeading, 1)
           links == cleanLinks(
                      [pubmed |-> IF Truthy(pmidValue)
                                  THEN "https://pubmed.ncbi.nlm.nih.gov/" \o pmidValue
                                  ELSE Undefined,
                       doi |-> IF Truthy(doi) THEN "https://doi.org/" \o doi ELSE Undefined,
                       pmc |-> IF Truthy(pmcid)
                               THEN "https://www.ncbi.nlm.nih.gov/pmc/articles/" \o pmcid
                               ELSE Undefined])
           flags == cleanFlags(
                      [has_fulltext |-> IF Truthy(pmcid) THEN "true" ELSE "false",
                       open_access |-> IF Truthy(pmcid) THEN "true" ELSE "false"])
       IN IF ~Truthy(title) THEN [error |-> "PubMed record is missing a title."]
          ELSE IF "exception" \in DOMAIN dateInfo THEN dateInfo
          ELSE IF dateInfo.year = 0
            THEN [error |-> "PubMed record is missing a publication year."]
          ELSE [record |->
                 [id |-> IF pmidValue # Undefined THEN pmidValue ELSE trimmed,
                  pmid |-> IF pmidValue # Undefined THEN pmidValue ELSE trimmed,
                  doi |-> doi,
                  pmcid |-> pmcid,
                  title |-> title,
                  authors |-> authors,
                  journal |-> IF payload.JournalTitle # Undefined
                              THEN Trim(payload.JournalTitle) ELSE "",
                  year |-> dateInfo.year,
                  date |-> dateInfo.date,
                  abstract |-> buildAbstract(payload.Abstract),
                  mesh |-> IF Len(mesh) > 0 THEN mesh ELSE UndefinedList,
                  keywords |-> IF Len(keywords) > 0 THEN keywords ELSE UndefinedList,
                  country |-> IF payload.Country # Undefined
                              THEN Trim(payload.Country) ELSE Undefined,
                  links |-> links,
                  flags |-> flags]]

\* --------------------------------------------------- provider responses
\* The registry's work messages: the test payload of paperFetcher.test.ts,
\* with and without its optional members, its DOI and its embedded PMID.
CrossrefFull ==
  [DOI |-> "10.1/A",
   title |-> <<"Example cardiac arrest study">>,
   abstract |-> "<jats:p>This is <b>important</b> science.</jats:p>",
   author |-> <<[given |-> "Jane", family |-> "Doe", name |-> Undefined],
                [given |-> Undefined, family |-> Undefined, name |-> "Research Group"]>>,
   subject |-> <<"Cardiac Arrest", "Recovery">>,
   issued |-> <<2024, 7, 1>>,
   published |-> UndefinedParts,
   publishedOnline |-> UndefinedParts,
   publishedPrint |-> UndefinedParts,
   containerTitle |-> <<"Journal of Testing">>,
   license |-> <<"license">>,
   link |-> <<"https://example.test/fulltext">>,
   pubMedId |-> "11"]

CrossrefBare ==
  [CrossrefFull EXCEPT !.abstract = Undefined, !.author = UndefinedList,
                       !.subject = UndefinedList, !.license = UndefinedList,
                       !.link = UndefinedList, !.containerTitle = <<>>]

CrossrefMessages ==
  {[base EXCEPT !.DOI = d, !.pubMedId = q] :
     base \in {CrossrefFull, CrossrefBare}, d \in {Undefined, "", "10.1/A"},
     q \in {Undefined, "11"}}
  \cup {[CrossrefFull EXCEPT !.title = <<>>],
        [CrossrefFull EXCEPT !.issued = UndefinedParts],
        [CrossrefFull EXCEPT !.issued = <<0>>],
        [CrossrefBare EXCEPT !.publishedPrint = <<2023, 5>>, !.pubMedId = Undefined]}

\* The payload of a registry response: a message, or no message member.
CrossrefPayloads == CrossrefMessages \cup {UndefinedObject}

\* The biomedical provider's article bodies: the test document of
\* paperFetcher.test.ts and variations of it.
PubMedFull ==
  [entry |-> TRUE,
   citation |-> TRUE,
   PMID |-> "11",
   ArticleTitle |-> "Example cardiac arrest study",
   Abstract |-> <<[Label |-> "BACKGROUND", text |-> "Background text."],
                  [Label |-> "RESULTS", text |-> "Results text."]>>,
   Author |-> <<[LastName |-> "Doe", ForeName |-> "Jane A", Initials |-> "JA",
                 CollectiveName |-> Undefined],
                [LastName |-> Undefined, ForeName |-> Undefined, Initials |-> Undefined,
                 CollectiveName |-> "Research Group"]>>,
   Keyword |-> <<"cardiac arrest", "recovery">>,
   MeshHeading |-> <<"Heart Arrest">>,
   ArticleId |-> <<[IdType |-> "pubmed", text |-> "11"],
                   [IdType |-> "doi", text |-> "10.1/a"],
                   [IdType |-> "pmc", text |-> "PMC7"]>>,
   ArticleDate |-> <<[NoNode EXCEPT !.Year = "2024", !.Month = "Jul", !.Day = "15"]>>,
   PubDate |-> [NoNode EXCEPT !.Year = "2023", !.Month = "May"],
   JournalTitle |-> "Journal of Testing",
   Country |-> "United States"]

PubMedBare ==
  [PubMedFull EXCEPT !.Abstract = <<>>, !.Author = <<>>, !.Keyword = <<>>,
                     !.MeshHeading = <<>>, !.Country = Undefined,
                     !.JournalTitle = Undefined]

PubMedArticleIds ==
  { <<[IdType |-> "pubmed", text |-> "11"], [IdType |-> "doi", text |-> "10.1/a"],
      [IdType |-> "pmc", text |-> "PMC7"]>>,
    <<[IdType |-> "DOI", text |-> "10.1/a"]>>,
    <<[IdType |-> "pmc", text |-> "PMC7"]>>,
    <<>> }

PubMedBodies ==
  {[base EXCEPT !.ArticleId = ids] : base \in {PubMedFull, PubMedBare}, ids \in PubMedArticleIds}
  \cup {[PubMedFull EXCEPT !.entry = FALSE],
        [PubMedFull EXCEPT !.citation = FALSE],
        [PubMedFull EXCEPT !.PMID = Undefined],
        [PubMedFull EXCEPT !.ArticleTitle = ""],
        [PubMedFull EXCEPT !.ArticleDate = <<>>],
        [PubMedFull EXCEPT !.ArticleDate = <<>>, !.PubDate = NoNode],
        [PubMedFull EXCEPT !.ArticleDate = <<>>,
                           !.PubDate = [NoNode EXCEPT !.MedlineDate = "2022 Jul-Aug"]],
        [PubMedFull EXCEPT !.ArticleDate =
           <<[NoNode EXCEPT !.Year = "2024", !.Month = "7", !.Day = "15"]>>]}

\* What a rejected fetch, or an unreadable response body, throws.
TransportErrors == {"TypeError: fetch failed", "SyntaxError: Unexpected token"}

\* ------------------------------------------------ fetchPaperByIdentifier
ResolveOptions ==
  [doi : {"", "10.1/A"}, pmid : {"", "11"}, pmcid : {"", " ", "pmc7", "7"}]

InitResolve ==
  /\ opts \in ResolveOptions
  /\ rpc = "start"
  /\ calls = <<>>
  /\ responses = <<>>
  /\ raised = ""
  /\ linkPayload = <<>>
  /\ crossref = EmptyObject
  /\ pubmed = EmptyObject
  /\ outcome = "pending"
  /\ result = EmptyObject
  /\ thrown = ""
  /\ DedupIdle
  /\ MergeIdle
  /\ NormIdle
  /\ CountryIdle
  /\ SearchIdle
  /\ TripIdle
  /\ BrowseIdle
  /\ BatchIdle
  /\ AddIdle
  /\ PostIdle

\* The call ends: it rejects with an exception, or resolves with a record.
Reject(kind, what) ==
  /\ rpc' = "done"
  /\ outcome' = kind
  /\ thrown' = what
  /\ UNCHANGED result

Return(record) ==
  /\ rpc' = "done"
  /\ outcome' = "record"
  /\ result' = record
  /\ UNCHANGED thrown

\* A request handed to the fetcher.
Request(endpoint, arg) == calls' = Append(calls, [ep |-> endpoint, arg |-> arg])

\* The branch taken by lines 486-500: the identifier the call resolves by.
DispatchPmidFirst(options) ==
  IF ~Truthy(options.doi) /\ ~Truthy(options.pmid) /\ ~Truthy(options.pmcid) THEN "none"
  ELSE IF Truthy(options.pmid) THEN "pmid"
  ELSE IF Truthy(options.pmcid) THEN "pmcid"
  ELSE "doi"

Dispatch(options) ==
  IF ~Truthy(options.doi) /\ ~Truthy(options.pmid) /\ ~Truthy(options.pmcid) THEN "none"
  ELSE IF Truthy(options.pmcid) THEN "pmcid"
  ELSE IF Truthy(options.pmid) THEN "pmid"
  ELSE "doi"

\* No identifier: the call throws before any request (lines 487-489).
ResolveNoIdentifier ==
  /\ rpc = "start"
  /\ Dispatch(opts) = "none"
  /\ Reject("LookupError", "A DOI, PubMed ID, or PubMed Central ID is required.")
  /\ UNCHANGED <<opts, calls, linkPayload, crossref, pubmed>>
  /\ UNCHANGED <<responses, raised>>
  /\ UNCHANGED <<dedupVars, mergeVars, normVars, countryVars, searchVars, tripVars, browseVars, batchVars, addVars, postVars>>

\* A PMCID: resolvePmidFromPmcid throws on a blank one, else sends the link
\* lookup (lines 490-491, 35-54).
ResolveByPmcid ==
  /\ rpc = "start"
  /\ Dispatch(opts) = "pmcid"
  /\ IF Trim(opts.pmcid) = ""
     THEN /\ Reject("LookupError", "A PMCID is required.")
          /\ UNCHANGED calls
     ELSE /\ Request("elink", NormalizePmcid(opts.pmcid))
          /\ rpc' = "elink"
          /\ UNCHANGED <<outcome, result, thrown>>
  /\ UNCHANGED <<opts, linkPayload, crossref, pubmed>>
  /\ UNCHANGED <<responses, raised>>
  /\ UNCHANGED <<dedupVars, mergeVars, normVars, countryVars, searchVars, tripVars, browseVars, batchVars, addVars, postVars>>

\* A PMID and no PMCID: fetchPubMedMetadata sends the record fetch (lines
\* 494-495, 368-381).
ResolveByPmid ==
  /\ rpc = "start"
  /\ Dispatch(opts) = "pmid"
  /\ Request("efetch", Trim(opts.pmid))
  /\ rpc' = "efetch"
  /\ UNCHANGED <<opts, linkPayload, crossref, pubmed, outcome, result, thrown>>
  /\ UNCHANGED <<responses, raised>>
  /\ UNCHANGED <<dedupVars, mergeVars, normVars, countryVars, searchVars, tripVars, browseVars, batchVars, addVars, postVars>>

\* A DOI only: fetchCrossrefMetadata sends the work lookup (lines 500,
\* 207-214).
ResolveByDoi ==
  /\ rpc = "start"
  /\ Dispatch(opts) = "doi"
  /\ Request("crossref", ToLowerCase(Trim(opts.doi)))
  /\ rpc' = "crossref"
  /\ UNCHANGED <<opts, linkPayload, crossref, pubmed, outcome, result, thrown>>
  /\ UNCHANGED <<responses, raised>>
  /\ UNCHANGED <<dedupVars, mergeVars, normVars, countryVars, searchVars, tripVars, browseVars, batchVars, addVars, postVars>>

\* The link lookup's fetch rejects, or its body cannot be read: the exception
\* leaves resolvePmidFromPmcid and fetchPaperByIdentifier (lines 52, 60, 491).
ElinkRejects(e) ==
  /\ rpc = "elink"
  /\ Reject("Error", e)
  /\ UNCHANGED <<opts, calls, linkPayload, crossref, pubmed>>
  /\ responses' = Append(responses, "rejected")
  /\ raised' = e
  /\ UNCHANGED <<dedupVars, mergeVars, normVars, countryVars, searchVars, tripVars, browseVars, batchVars, addVars, postVars>>

\* The link lookup answers with a non-success status (lines 55-59).
ElinkNotOk ==
  /\ rpc = "elink"
  /\ Reject("LookupError", "PMCID lookup failed")
  /\ UNCHANGED <<opts, calls, linkPayload, crossref, pubmed>>
  /\ responses' = Append(responses, "notok")
  /\ UNCHANGED raised
  /\ UNCHANGED <<dedupVars, mergeVars, normVars, countryVars, searchVars, tripVars, browseVars, batchVars, addVars, postVars>>

\* The link lookup answers with a payload (lines 60-80); with a PMID found,
\* fetchPubMedMetadata sends the record fetch (lines 492, 368-381).
ElinkAnswers(payload) ==
  /\ rpc = "elink"
  /\ linkPayload' = payload
  /\ IF PmidOfLinkPayload(payload) = Undefined
     THEN /\ Reject("LookupError", "Unable to resolve PMCID to a PubMed ID.")
          /\ UNCHANGED calls
     ELSE /\ Request("efetch", Trim(PmidOfLinkPayload(payload)))
          /\ rpc' = "efetch"
          /\ UNCHANGED <<outcome, result, thrown>>
  /\ UNCHANGED <<opts, crossref, pubmed>>
  /\ responses' = Append(responses, "ok")
  /\ UNCHANGED raised
  /\ UNCHANGED <<dedupVars, mergeVars, normVars, countryVars, searchVars, tripVars, browseVars, batchVars, addVars, postVars>>

\* The catch block of lines 505-510, around the fetch of the embedded PMID.
\* The first variant returns the registry record whatever was thrown, the
\* second has no catch block.
CatchEmbeddedSwallowsAll(kind, what) == Return(crossref)

CatchEmbeddedRethrowsAll(kind, what) == Reject(kind, what)

CatchEmbedded(kind, what) ==
  IF kind = "LookupError" THEN Return(crossref) ELSE Reject(kind, what)

\* fetchPubMedMetadata throws: straight out of the call on the PMCID and PMID
\* paths, through the catch block on the DOI path.
PubMedThrows(kind, what) ==
  IF crossref # EmptyObject THEN CatchEmbedded(kind, what) ELSE Reject(kind, what)

\* The record fetch rejects, or its body cannot be read (lines 377, 385).
EfetchRejects(e) ==
  /\ rpc = "efetch"
  /\ PubMedThrows("Error", e)
  /\ UNCHANGED <<opts, calls, linkPayload, crossref, pubmed>>
  /\ responses' = Append(responses, "rejected")
  /\ raised' = e
  /\ UNCHANGED <<dedupVars, mergeVars, normVars, countryVars, searchVars, tripVars, browseVars, batchVars, addVars, postVars>>

\* The same, with the request sent again after a non-success status.
EfetchNotOkRetries ==
  /\ rpc = "efetch"
  /\ Request("efetch", calls[Len(calls)].arg)
  /\ UNCHANGED <<opts, rpc, linkPayload, crossref, pubmed, outcome, result, thrown>>
  /\ responses' = Append(responses, "notok")
  /\ UNCHANGED raised
  /\ UNCHANGED <<dedupVars, mergeVars, normVars, countryVars, searchVars, tripVars, browseVars, batchVars, addVars, postVars>>

\* The record fetch answers with a non-success status (lines 382-384).
EfetchNotOk ==
  /\ rpc = "efetch"
  /\ PubMedThrows("LookupError", "PubMed lookup failed")
  /\ UNCHANGED <<opts, calls, linkPayload, crossref, pubmed>>
  /\ responses' = Append(responses, "notok")
  /\ UNCHANGED raised
  /\ UNCHANGED <<dedupVars, mergeVars, normVars, countryVars, searchVars, tripVars, browseVars, batchVars, addVars, postVars>>

\* The record fetch answers with a body (lines 385-464); the record is
\* returned as it is (lines 492, 495) or merged over the registry record
\* (line 504).
EfetchAnswers(body) ==
  /\ rpc = "efetch"
  /\ LET parsed == PubMedParse(body, calls[Len(calls)].arg)
     IN IF "record" \in DOMAIN parsed
        THEN /\ pubmed' = parsed.record
             /\ UNCHANGED raised
             /\ IF crossref # EmptyObject
                THEN Return(mergeRecords(parsed.record, crossref))
                ELSE Return(parsed.record)
        ELSE /\ UNCHANGED pubmed
             /\ IF "error" \in DOMAIN parsed
                THEN /\ PubMedThrows("LookupError", parsed.error)
                     /\ UNCHANGED raised
                ELSE /\ PubMedThrows("Error", parsed.exception)
                     /\ raised' = parsed.exception
  /\ UNCHANGED <<opts, calls, linkPayload, crossref>>
  /\ responses' = Append(responses, "ok")
  /\ UNCHANGED <<dedupVars, mergeVars, normVars, countryVars, searchVars, tripVars, browseVars, batchVars, addVars, postVars>>

\* The work lookup rejects, or its body cannot be read (lines 209, 220).
CrossrefRejects(e) ==
  /\ rpc = "crossref"
  /\ Reject("Error", e)
  /\ UNCHANGED <<opts, calls, linkPayload, crossref, pubmed>>
  /\ responses' = Append(responses, "rejected")
  /\ raised' = e
  /\ UNCHANGED <<dedupVars, mergeVars, normVars, countryVars, searchVars, tripVars, browseVars, batchVars, addVars, postVars>>

\* The work lookup answers with a non-success status (lines 215-219).
CrossrefNotOk ==
  /\ rpc = "crossref"
  /\ Reject("LookupError", "Crossref lookup failed")
  /\ UNCHANGED <<opts, calls, linkPayload, crossref, pubmed>>
  /\ responses' = Append(responses, "notok")
  /\ UNCHANGED raised
  /\ UNCHANGED <<dedupVars, mergeVars, normVars, countryVars, searchVars, tripVars, browseVars, batchVars, addVars, postVars>>

\* The work lookup answers with a payload (lines 220-261); with an embedded
\* PMID the record fetch is sent (lines 501-503), without one the registry
\* record is returned (line 512).
CrossrefAnswers(payload) ==
  /\ rpc = "crossref"
  /\ LET parsed == CrossrefParse(payload, calls[Len(calls)].arg)
     IN IF "record" \in DOMAIN parsed
        THEN /\ crossref' = parsed.record
             /\ IF Truthy(parsed.record.pmid)
                THEN /\ Request("efetch", Trim(parsed.record.pmid))
                     /\ rpc' = "efetch"
                     /\ UNCHANGED <<outcome, result, thrown>>
                ELSE /\ Return(parsed.record)
                     /\ UNCHANGED calls
        ELSE /\ Reject("LookupError", parsed.error)
             /\ UNCHANGED <<crossref, calls>>
  /\ UNCHANGED <<opts, linkPayload, pubmed>>
  /\ responses' = Append(responses, "ok")
  /\ UNCHANGED raised
  /\ UNCHANGED <<dedupVars, mergeVars, normVars, countryVars, searchVars, tripVars, browseVars, batchVars, addVars, postVars>>

NextResolve ==
  \/ ResolveNoIdentifier
  \/ ResolveByPmcid
  \/ ResolveByPmid
  \/ ResolveByDoi
  \/ \E e \in TransportErrors : ElinkRejects(e)
  \/ ElinkNotOk
  \/ \E payload \in LinkPayloads : ElinkAnswers(payload)
  \/ \E e \in TransportErrors : EfetchRejects(e)
  \/ EfetchNotOk
  \/ \E body \in PubMedBodies : EfetchAnswers(body)
  \/ \E e \in TransportErrors : CrossrefRejects(e)
  \/ CrossrefNotOk
  \/ \E payload \in CrossrefPayloads : CrossrefAnswers(payload)

SpecResolve == InitResolve /\ [][NextResolve]_vars

\* ----------------------------------------------------------- normalizer
\* String.prototype.includes.
Includes(text, term) ==
  \E i \in 1..(Len(text) - Len(term) + 1) : SubSeq(text, i, i + Len(term) - 1) = term

\* The first position at or after i whose character is in chars, 0 when there
\* is none.
RECURSIVE FirstIndex(_, _, _)
FirstIndex(s, chars, i) ==
  IF i > Len(s) THEN 0
  ELSE IF Char(s, i) \in chars THEN i ELSE FirstIndex(s, chars, i + 1)

\* split(separators).filter(Boolean): the maximal runs of characters that are
\* not separators, from position i on.
RECURSIVE Tokens(_, _, _)
Tokens(s, separators, i) ==
  IF i > Len(s) THEN <<>>
  ELSE IF Char(s, i) \in separators THEN Tokens(s, separators, i + 1)
  ELSE LET next == FirstIndex(s, separators, i)
           stop == IF next = 0 THEN Len(s) + 1 ELSE next
       IN <<SubSeq(s, i, stop - 1)>> \o Tokens(s, separators, stop)

\* map((part) => part[0]?.toUpperCase()).join('').
RECURSIVE Initials(_, _)
Initials(parts, i) ==
  IF i > Len(parts) THEN ""
  ELSE UpperChar(Char(parts[i], 1)) \o Initials(parts, i + 1)

\* normalizeName.  cleaned.split(',') cuts at every comma and the destructuring
\* keeps the first two pieces: the surname is the text before the first comma,
\* the given part the text between the first and the second comma.
normalizeName(name) ==
  LET cleaned == Trim(name)
  IN IF cleaned = "" THEN name
     ELSE IF Includes(cleaned, ",")
       THEN LET first == FirstIndex(cleaned, {","}, 1)
                second == FirstIndex(cleaned, {","}, first + 1)
                surname == SubSeq(cleaned, 1, first - 1)
                given == SubSeq(cleaned, first + 1,
                                IF second = 0 THEN Len(cleaned) ELSE second - 1)
                initials == Initials(Tokens(given, Whitespace \cup {"-"}, 1), 1)
            IN Trim(Trim(surname) \o " " \o initials)
     ELSE LET parts == Tokens(cleaned, Whitespace, 1)
          IN IF Len(parts) = 1 THEN cleaned
             ELSE LET surname == parts[Len(parts)]
                      initials == Initials(SubSeq(parts, 1, Len(parts) - 1), 1)
                  IN Trim(surname \o " " \o initials)

\* array.join(' ') from position i on.
RECURSIVE JoinSpaces(_, _)
JoinSpaces(list, i) ==
  IF i > Len(list) THEN ""
  ELSE IF i = Len(list) THEN list[i]
  ELSE list[i] \o " " \o JoinSpaces(list, i + 1)

\* containsAny(text, terms).
containsAny(text, terms) == \E k \in 1..Len(terms) : Includes(text, terms[k])

\* The characters of the class \w.
WordChars ==
  {SmallLetters[i] : i \in 1..LetterCount} \cup {CapitalLetters[i] : i \in 1..LetterCount}
    \cup {"0", "1", "2", "3", "4", "5", "6", "7", "8", "9", "_"}

\* replace(/\b\w/g, upper): every word character that starts a word is
\* upper-cased.
RECURSIVE CapitalizeWords(_, _)
CapitalizeWords(s, i) ==
  IF i > Len(s) THEN ""
  ELSE (IF Char(s, i) \in WordChars /\ (i = 1 \/ Char(s, i - 1) \notin WordChars)
        THEN UpperChar(Char(s, i)) ELSE Char(s, i))
       \o CapitalizeWords(s, i + 1)

\* The domains inferDomains looks for, in the order of its add calls, and the
\* terms of each.
DomainTerms ==
  <<[domain |-> "cognitive", terms |-> <<"moca", "sdmt", "neuropsych", "cognitive">>],
    [domain |-> "psychological", terms |-> <<"hads", "anxiety", "depression", "pts">>],
    [domain |-> "qol", terms |-> <<"eq-5d", "quality of life", "sf-36">>],
    [domain |-> "participation",
     terms |-> <<"return to work", "mpai-4", "community reintegration", "employment">>],
    [domain |-> "caregiver", terms |-> <<"caregiver", "zarit", "family burden">>]>>

\* A Set holds each value once, in the order of first insertion.
SetAdd(list, value) ==
  IF \E k \in 1..Len(list) : list[k] = value THEN list ELSE Append(list, value)

RECURSIVE SeedOf(_, _)
SeedOf(domains, i) ==
  IF i = 0 THEN <<>> ELSE SetAdd(SeedOf(domains, i - 1), ToLowerCase(domains[i]))

RECURSIVE AddDomains(_, _, _)
AddDomains(seed, text, i) ==
  IF i > Len(DomainTerms) THEN seed
  ELSE AddDomains(IF containsAny(text, DomainTerms[i].terms)
                  THEN SetAdd(seed, DomainTerms[i].domain) ELSE seed,
                  text, i + 1)

\* inferDomains.
inferDomains(paper) ==
  LET given == IF GetList(paper, "domains") = UndefinedList THEN <<>> ELSE paper["domains"]
      keywords == IF GetList(paper, "keywords") = UndefinedList THEN <<>>
                  ELSE paper["keywords"]
      text == ToLowerCase(paper["title"] \o " " \o paper["abstract"] \o " "
                          \o JoinSpaces(keywords, 1))
      seed == AddDomains(SeedOf(given, Len(given)), text, 1)
  IN [k \in 1..Len(seed) |-> CapitalizeWords(seed[k], 1)]

\* inferSetting.
inferSetting(paper) ==
  LET text == ToLowerCase(paper["title"] \o " " \o paper["abstract"])
  IN IF Truthy(GetStr(paper, "setting")) THEN paper["setting"]
     ELSE IF Includes(text, "out-of-hospital") \/ Includes(text, "ohca") THEN "OHCA"
     ELSE IF Includes(text, "in-hospital") \/ Includes(text, "ihca") THEN "IHCA"
     ELSE IF Includes(text, "cardiac arrest") THEN "Mixed"
     ELSE "Unclear"

\* inferDesign.
inferDesign(paper) ==
  LET text == ToLowerCase(paper["title"] \o " " \o paper["abstract"])
  IN IF Truthy(GetStr(paper, "design")) THEN paper["design"]
     ELSE IF Includes(text, "randomized") THEN "Randomized controlled trial"
     ELSE IF Includes(text, "prospective") THEN "Prospective cohort"
     ELSE IF Includes(text, "retrospective") THEN "Retrospective cohort"
     ELSE IF Includes(text, "cross-sectional") THEN "Cross-sectional study"
     ELSE IF Includes(text, "mixed-method") \/ Includes(text, "mixed methods")
       THEN "Mixed methods"
     ELSE Undefined

\* String.prototype.endsWith.
EndsWith(s, tail) == Len(s) >= Len(tail) /\ SubSeq(s, Len(s) - Len(tail) + 1, Len(s)) = tail

\* isAbstractTruncated.
isAbstractTruncated(abstract) ==
  IF Truthy(abstract) /\ EndsWith(Trim(abstract), "...") THEN "true" ELSE "false"

\* The first position at which term occurs in text, 0 when it does not.
IndexOf(text, term) ==
  IF Includes(text, term)
  THEN CHOOSE i \in 1..(Len(text) - Len(term) + 1) :
         /\ SubSeq(text, i, i + Len(term) - 1) = term
         /\ \A j \in 1..(i - 1) : SubSeq(text, j, j + Len(term) - 1) # term
  ELSE 0

\* replace(/\s*<label>.*$/i, '') for a label written in one of several ways:
\* the text is cut before the white space that precedes the first occurrence.
CutFromLabel(s, labels) ==
  LET lower == ToLowerCase(s)
      hits == {IndexOf(lower, label) : label \in labels} \ {0}
  IN IF hits = {} THEN s
     ELSE LET at == CHOOSE i \in hits : \A j \in hits : i <= j
          IN SubSeq(s, 1, SkipSpaceBack(s, at - 1))

Digits == {"0", "1", "2", "3", "4", "5", "6", "7", "8", "9"}

Letters ==
  {SmallLetters[i] : i \in 1..LetterCount} \cup {CapitalLetters[i] : i \in 1..LetterCount}

AllIn(s, chars) == \A i \in 1..Len(s) : Char(s, i) \in chars

\* The last position whose character is in chars, 0 when there is none.
LastIndex(s, chars) ==
  IF \E i \in 1..Len(s) : Char(s, i) \in chars
  THEN CHOOSE i \in 1..Len(s) :
         Char(s, i) \in chars /\ \A j \in (i + 1)..Len(s) : Char(s, j) \notin chars
  ELSE 0

\* ^[A-Z0-9._%+-]+@[A-Z0-9.-]+\.[A-Z]{2,}$ with the flag i.
IsEmailAddress(s) ==
  LET at == FirstIndex(s, {"@"}, 1)
      local == SubSeq(s, 1, at - 1)
      domain == SubSeq(s, at + 1, Len(s))
      dot == LastIndex(domain, {"."})
  IN /\ at > 1
     /\ AllIn(local, Letters \cup Digits \cup {".", "_", "%", "+", "-"})
     /\ dot > 1
     /\ AllIn(SubSeq(domain, 1, dot - 1), Letters \cup Digits \cup {".", "-"})
     /\ Len(domain) - dot >= 2
     /\ AllIn(SubSeq(domain, dot + 1, Len(domain)), Letters)

\* The text from position i on matches \s*[.;]\s*<address>\s*$.
IsAddressTail(s, i) ==
  LET mark == SkipSpace(s, i)
  IN /\ mark <= Len(s)
     /\ Char(s, mark) \in {".", ";"}
     /\ IsEmailAddress(SubSeq(s, SkipSpace(s, mark + 1), SkipSpaceBack(s, Len(s))))

\* replace(/\s*[.;]\s*<address>\s*$/i, ''): the text is cut at the leftmost
\* position from which the pattern matches.
CutAddressTail(s) ==
  LET starts == {i \in 1..Len(s) : IsAddressTail(s, i)}
  IN IF starts = {} THEN s
     ELSE SubSeq(s, 1, (CHOOSE i \in starts : \A j \in starts : i <= j) - 1)

\* replace(/[.;,]+$/, '').
RECURSIVE CutTrailingMarks(_)
CutTrailingMarks(s) ==
  IF Len(s) > 0 /\ Char(s, Len(s)) \in {".", ";", ","}
  THEN CutTrailingMarks(SubSeq(s, 1, Len(s) - 1)) ELSE s

\* sanitizeCountry: undefined for undefined, '' for '', else the cleaned text,
\* or undefined when nothing is left of it.
sanitizeCountry(country) ==
  IF ~Truthy(country) THEN country
  ELSE LET cleaned ==
             Trim(CutTrailingMarks(Trim(CutAddressTail(
               CutFromLabel(CutFromLabel(country, {"electronic address:"}),
                            {"email:", "e-mail:"})))))
       IN IF cleaned = "" THEN Undefined ELSE cleaned

\* COUNTRY_CORRECTIONS, each regular expression by its kind: the pattern
\* occurs anywhere, occurs at the start of a word, or is the whole text, all
\* without regard to case.  The two characters of the third entry that are
\* not ASCII are written <C3> and <B6>.
COUNTRY_CORRECTIONS ==
  <<[kind |-> "contains",
     pattern |-> "department of physiotherapy and occupational therapy aarhus university hospital aarhus denmark",
     code |-> "AT", name |-> "Austria"],
    [kind |-> "contains",
     pattern |-> "faculty of health and life sciences linnaeus university kalmar sweden",
     code |-> "SE", name |-> "Sweden"],
    [kind |-> "contains", pattern |-> "<c3><b6>sterreich", code |-> "AT", name |-> "Austria"],
    [kind |-> "wordstart", pattern |-> "m.c.k.)", code |-> "US", name |-> "United States"],
    [kind |-> "whole", pattern |-> "alabama", code |-> "US", name |-> "United States"],
    [kind |-> "contains", pattern |-> "lieutenant colonel charles s. kettles",
     code |-> "US", name |-> "United States"],
    [kind |-> "contains",
     pattern |-> "department of emergency medicine university of colorado school of medicine denver co",
     code |-> "US", name |-> "United States"],
    [kind |-> "whole", pattern |-> "mi", code |-> "US", name |-> "United States"]>>

\* correction.match.test(cleaned).
CorrectionMatches(correction, cleaned) ==
  LET lower == ToLowerCase(cleaned)
  IN CASE correction.kind = "whole" -> lower = correction.pattern
       [] correction.kind = "contains" -> Includes(lower, correction.pattern)
       [] correction.kind = "wordstart" ->
            \E i \in 1..(Len(lower) - Len(correction.pattern) + 1) :
              /\ SubSeq(lower, i, i + Len(correction.pattern) - 1) = correction.pattern
              /\ (i = 1 \/ Char(lower, i - 1) \notin WordChars)

\* The correction applyCountryCorrections returns: the first entry of the
\* table that matches, NoCorrection (undefined) when the country is not given
\* or no entry matches.
NoCorrection == EmptyObject

applyCountryCorrections(country) ==
  IF ~Truthy(country) THEN NoCorrection
  ELSE LET cleaned == Trim(country)
           hits == {k \in 1..Len(COUNTRY_CORRECTIONS) :
                      CorrectionMatches(COUNTRY_CORRECTIONS[k], cleaned)}
       IN IF hits = {} THEN NoCorrection
          ELSE LET first == CHOOSE k \in hits : \A j \in hits : k <= j
               IN [corrCountryCode |-> COUNTRY_CORRECTIONS[first].code,
                   corrCountryName |-> COUNTRY_CORRECTIONS[first].name]

\* The collation rank of a character: white space before digits before
\* letters, the letters in alphabetical order whatever their case.  The titles
\* of the model are made of these characters.
CollationRank(c) ==
  IF c \in Whitespace THEN 0
  ELSE IF c \in Digits THEN 1 + (CHOOSE d \in 0..9 : ToString(d) = c)
  ELSE IF LowerChar(c) \in DOMAIN CapitalOfLower
    THEN 10 + (CHOOSE i \in 1..LetterCount : SmallLetters[i] = LowerChar(c))
  ELSE 0

\* The first level of localeCompare: the ranks, position by position, a
\* proper prefix before the longer text.
RECURSIVE ComparePrimary(_, _, _)
ComparePrimary(a, b, i) ==
  IF i > Len(a) /\ i > Len(b) THEN 0
  ELSE IF i > Len(a) THEN -1
  ELSE IF i > Len(b) THEN 1
  ELSE IF CollationRank(Char(a, i)) < CollationRank(Char(b, i)) THEN -1
  ELSE IF CollationRank(Char(a, i)) > CollationRank(Char(b, i)) THEN 1
  ELSE ComparePrimary(a, b, i + 1)

\* The last level: at the first position where the texts differ, the small
\* letter before the capital.
RECURSIVE CompareCase(_, _, _)
CompareCase(a, b, i) ==
  IF i > Len(a) THEN 0
  ELSE IF Char(a, i) = Char(b, i) THEN CompareCase(a, b, i + 1)
  ELSE IF Char(a, i) \in DOMAIN CapitalOfLower THEN -1 ELSE 1

\* a.localeCompare(b): negative, zero or positive.
localeCompare(a, b) ==
  IF ComparePrimary(a, b, 1) # 0 THEN ComparePrimary(a, b, 1) ELSE CompareCase(a, b, 1)

\* A comparator that orders the years ascending.
comparePapersYearAscending(a, b) ==
  IF a["year"] - b["year"] # 0 THEN a["year"] - b["year"]
  ELSE localeCompare(a["title"], b["title"])

\* The comparator of normalizeRecords:
\* b.year - a.year || a.title.localeCompare(b.title).
comparePapers(a, b) ==
  IF b["year"] - a["year"] # 0 THEN b["year"] - a["year"]
  ELSE localeCompare(a["title"], b["title"])

\* Array.prototype.sort with that comparator.  The sort is stable: an element
\* goes behind every element that does not compare after it.
RECURSIVE SortPapers(_, _)
SortPapers(list, n) ==
  IF n = 0 THEN <<>>
  ELSE LET sorted == SortPapers(list, n - 1)
           x == list[n]
           before == Cardinality({k \in 1..Len(sorted) : comparePapers(sorted[k], x) <= 0})
       IN SubSeq(sorted, 1, before) \o <<x>> \o SubSeq(sorted, before + 1, Len(sorted))

\* paper.authors?.map(normalizeName) ?? [].
NormalizedAuthors(paper) ==
  LET authors == GetList(paper, "authors")
  IN IF authors = UndefinedList THEN <<>>
     ELSE [k \in 1..Len(authors) |-> normalizeName(authors[k])]

\* A map callback that keeps the sanitized string as the country also when a
\* correction matches.
NormalizePaperKeepsSanitized(paper) ==
  LET sanitized == sanitizeCountry(GetStr(paper, "country"))
      country == IF sanitized # Undefined THEN sanitized ELSE GetStr(paper, "country")
      correctedCountry == applyCountryCorrections(country)
  IN Spread(Spread(Spread(paper, [country |-> country]), correctedCountry),
            [domains |-> inferDomains(paper),
             setting |-> inferSetting(paper),
             design |-> inferDesign(paper),
             normalizedAuthors |-> NormalizedAuthors(paper),
             isAbstractTruncated |-> isAbstractTruncated(GetStr(paper, "abstract"))])

\* The callback of the map of normalizeRecords (lines 152-170).
NormalizePaper(paper) ==
  LET sanitized == sanitizeCountry(GetStr(paper, "country"))
      country == IF sanitized # Undefined THEN sanitized ELSE GetStr(paper, "country")
      correctedCountry == applyCountryCorrections(country)
      effectiveCountry == IF correctedCountry # NoCorrection
                          THEN correctedCountry.corrCountryName ELSE country
  IN Spread(Spread(Spread(paper, [country |-> effectiveCountry]), correctedCountry),
            [domains |-> inferDomains(paper),
             setting |-> inferSetting(paper),
             design |-> inferDesign(paper),
             normalizedAuthors |-> NormalizedAuthors(paper),
             isAbstractTruncated |-> isAbstractTruncated(GetStr(paper, "abstract"))])

\* normalizeRecords: deduplicate, map, sort.
normalizeRecords(input) ==
  LET kept == deduplicate(input)
      mapped == [k \in 1..Len(kept) |-> NormalizePaper(kept[k])]
  IN SortPapers(mapped, Len(mapped))

\* The records handed to normalizeRecords: the record of the normalizer's
\* test, varied in one respect at a time: in its sort keys, in its country
\* fields, in its identifiers, in its authors, or in the texts the inference
\* helpers read.
NormBase ==
  [id |-> "a", title |-> "Older", authors |-> <<"Jane Doe">>, journal |-> "J",
   year |-> 2023, abstract |-> "Summary", links |-> EmptyObject]

NormSortVariants ==
  {[NormBase EXCEPT !.year = y, !.title = t] :
     y \in {2023, 2024}, t \in {"Older", "Newer", "apple", "Banana"}}

\* A corrected country a stored record may carry already.
CarriedCorrections ==
  {NoCorrection, [corrCountryCode |-> "DK", corrCountryName |-> "Denmark"]}

NormCountries ==
  {Absent, "", "Alabama", "MI.", "Denmark. E-mail: a@b.dk", ".", "Sweden"}

NormCountryVariants ==
  {Spread(OptStr(NormBase, "country", c), carried) :
     c \in NormCountries, carried \in CarriedCorrections}

NormIdentifierVariants ==
  {With(NormBase, "doi", "10.1/a"), With(NormBase, "doi", "10.1/A"),
   With(With(NormBase, "doi", "10.1/b"), "pmid", "11"), With(NormBase, "pmid", "11")}

NormAuthorLists ==
  {<<"Doe, Jane Marie">>, <<"Jane Marie Doe", "Doe">>, <<"Doe, Jean-Luc", " Doe ">>,
   <<"Doe, Jane, Marie">>, <<"Doe,", "">>}

NormAuthorVariants == {[NormBase EXCEPT !.authors = a] : a \in NormAuthorLists}

NormTextVariants ==
  {[NormBase EXCEPT !.title = "OHCA outcomes", !.abstract = "Summary..."],
   With([NormBase EXCEPT !.title = "Cardiac arrest study",
                         !.abstract = "Using MoCA and return to work outcomes."],
        "keywords", <<"Zarit scale">>),
   [NormBase EXCEPT !.abstract = "A randomized trial with prospective follow-up."],
   With(With(With(NormBase, "setting", "IHCA"), "design", "Case series"),
        "domains", <<"QoL">>)}

NormRecords ==
  NormSortVariants \cup NormCountryVariants \cup NormIdentifierVariants
    \cup NormAuthorVariants \cup NormTextVariants

InitNormalize ==
  /\ corpus \in SeqsUpTo(NormRecords, MaxCorpus)
  /\ normDone = FALSE
  /\ normalized = <<>>
  /\ DedupIdle
  /\ MergeIdle
  /\ ResolveIdle
  /\ CountryIdle
  /\ SearchIdle
  /\ TripIdle
  /\ BrowseIdle
  /\ BatchIdle
  /\ AddIdle
  /\ PostIdle

\* The call normalizeRecords(corpus).
Normalize ==
  /\ ~normDone
  /\ normDone' = TRUE
  /\ normalized' = normalizeRecords(corpus)
  /\ UNCHANGED corpus
  /\ UNCHANGED <<dedupVars, mergeVars, resolveVars, countryVars, searchVars, tripVars, browseVars, batchVars, addVars, postVars>>

NextNormalize == Normalize

SpecNormalize == InitNormalize /\ [][NextNormalize]_vars

\* ------------------------------------------------------ geoEnrichment
\* COUNTRY_ALIASES, in the order of the source.  Letters outside ASCII are
\* written as their UTF-8 bytes in angle brackets; the affiliation texts of
\* the model are ASCII.
COUNTRY_ALIASES ==
  <<[code |-> "US", name |-> "United States",
     aliases |-> <<"United States", "USA", "U.S.A.", "United States of America">>],
    [code |-> "GB", name |-> "United Kingdom",
     aliases |-> <<"United Kingdom", "UK", "U.K.", "England", "Scotland", "Wales",
                   "Northern Ireland">>],
    [code |-> "CA", name |-> "Canada", aliases |-> <<"Canada">>],
    [code |-> "AU", name |-> "Australia", aliases |-> <<"Australia">>],
    [code |-> "DE", name |-> "Germany", aliases |-> <<"Germany", "Bundesrepublik Deutschland">>],
    [code |-> "FR", name |-> "France", aliases |-> <<"France">>],
    [code |-> "IT", name |-> "Italy", aliases |-> <<"Italy", "Italia">>],
    [code |-> "SE", name |-> "Sweden", aliases |-> <<"Sweden", "Sverige">>],
    [code |-> "NO", name |-> "Norway", aliases |-> <<"Norway", "Norge">>],
    [code |-> "NL", name |-> "the Netherlands",
     aliases |-> <<"Netherlands", "the Netherlands", "The Netherlands", "Nederland">>],
    [code |-> "DK", name |-> "Denmark", aliases |-> <<"Denmark", "Danmark">>],
    [code |-> "ES", name |-> "Spain", aliases |-> <<"Spain", "Espa<c3><b1>a">>],
    [code |-> "PT", name |-> "Portugal", aliases |-> <<"Portugal">>],
    [code |-> "CH", name |-> "Switzerland",
     aliases |-> <<"Switzerland", "Suisse", "Schweiz", "Svizzera">>],
    [code |-> "AT", name |-> "Austria", aliases |-> <<"Austria", "<c3><96>sterreich">>],
    [code |-> "BE", name |-> "Belgium", aliases |-> <<"Belgium", "Belgique", "Belgi<c3><ab>">>],
    [code |-> "FI", name |-> "Finland", aliases |-> <<"Finland", "Suomi">>],
    [code |-> "IE", name |-> "Ireland", aliases |-> <<"Ireland", "Republic of Ireland">>],
    [code |-> "PL", name |-> "Poland", aliases |-> <<"Poland", "Polska">>],
    [code |-> "CZ", name |-> "Czech Republic",
     aliases |-> <<"Czech Republic", "Czechia", "<c4><8c>esko">>],
    [code |-> "CN", name |-> "China",
     aliases |-> <<"China", "People's Republic of China", "PR China">>],
    [code |-> "JP", name |-> "Japan", aliases |-> <<"Japan", "Nippon">>],
    [code |-> "KR", name |-> "Republic of Korea",
     aliases |-> <<"Republic of Korea", "South Korea", "Korea">>],
    [code |-> "IN", name |-> "India", aliases |-> <<"India", "Bharat">>],
    [code |-> "NZ", name |-> "New Zealand", aliases |-> <<"New Zealand", "Aotearoa">>],
    [code |-> "BR", name |-> "Brazil", aliases |-> <<"Brazil", "Brasil">>],
    [code |-> "MX", name |-> "Mexico", aliases |-> <<"Mexico", "M<c3><a9>xico">>],
    [code |-> "AR", name |-> "Argentina", aliases |-> <<"Argentina">>],
    [code |-> "IL", name |-> "Israel", aliases |-> <<"Israel">>],
    [code |-> "TR", name |-> "Turkey", aliases |-> <<"Turkey", "T<c3><bc>rkiye">>]>>

\* The null an inference returns when it finds no country.
NullCountry == [code |-> "<null>", name |-> "<null>"]

\* The positions of COUNTRY_ALIASES one of whose aliases, in lower case, the
\* lower-case text includes.
AliasHits(lower) ==
  {k \in 1..Len(COUNTRY_ALIASES) :
     \E a \in 1..Len(COUNTRY_ALIASES[k].aliases) :
       Includes(lower, ToLowerCase(COUNTRY_ALIASES[k].aliases[a]))}

\* The nested loops over COUNTRY_ALIASES and the aliases of each entry: the
\* first entry with an alias the text includes, or null.
FirstAlias(text) ==
  LET hits == AliasHits(ToLowerCase(text))
  IN IF hits = {} THEN NullCountry
     ELSE LET k == CHOOSE k \in hits : \A j \in hits : k <= j
          IN [code |-> COUNTRY_ALIASES[k].code, name |-> COUNTRY_ALIASES[k].name]

\* map((c) => c.trim()).filter(Boolean) over the pieces of a split.
RECURSIVE TrimmedNonEmpty(_, _)
TrimmedNonEmpty(pieces, i) ==
  IF i > Len(pieces) THEN <<>>
  ELSE (IF Trim(pieces[i]) = "" THEN <<>> ELSE <<Trim(pieces[i])>>)
         \o TrimmedNonEmpty(pieces, i + 1)

\* The loop over the chunks from the last one down to chunk i.
RECURSIVE ChunkScan(_, _)
ChunkScan(chunks, i) ==
  IF i < 1 THEN NullCountry
  ELSE IF FirstAlias(chunks[i]) # NullCountry THEN FirstAlias(chunks[i])
  ELSE ChunkScan(chunks, i - 1)

inferCountryFromAffiliationText(affiliation) ==
  IF ~Truthy(affiliation) THEN NullCountry
  ELSE LET chunks == TrimmedNonEmpty(Tokens(affiliation, {";", ","}, 1), 1)
           fromChunks == ChunkScan(chunks, Len(chunks))
       IN IF fromChunks # NullCountry THEN fromChunks ELSE FirstAlias(affiliation)

\* affiliation.map((a) => a.name).join('; ') from position i on.
RECURSIVE JoinAffiliations(_, _)
JoinAffiliations(names, i) ==
  IF i > Len(names) THEN ""
  ELSE IF i = Len(names) THEN names[i]
  ELSE names[i] \o "; " \o JoinAffiliations(names, i + 1)

\* The authors that hold a non-empty affiliation list, in order.
RECURSIVE AuthorsWithAffiliation(_, _)
AuthorsWithAffiliation(authors, i) ==
  IF i > Len(authors) THEN <<>>
  ELSE (IF "affiliation" \in DOMAIN authors[i] /\ Len(authors[i]["affiliation"]) > 0
          THEN <<authors[i]>> ELSE <<>>)
         \o AuthorsWithAffiliation(authors, i + 1)

\* The loop over the ordered authors from position i on.
RECURSIVE AuthorScan(_, _)
AuthorScan(ordered, i) ==
  IF i > Len(ordered) THEN NullCountry
  ELSE LET inferred ==
             inferCountryFromAffiliationText(JoinAffiliations(ordered[i]["affiliation"], 1))
       IN IF inferred # NullCountry THEN inferred ELSE AuthorScan(ordered, i + 1)

inferCountryFromAuthors(authors) ==
  IF Len(authors) = 0 THEN NullCountry
  ELSE LET with == AuthorsWithAffiliation(authors, 1)
       IN IF Len(with) = 0 THEN NullCountry
          ELSE AuthorScan(<<with[Len(with)]>> \o SubSeq(with, 1, Len(with) - 1), 1)

\* What fetchCrossrefWork comes to: the request throws, the response is not
\* ok (null), or the response carries a message.
WorkAuthors ==
  {<<>>,
   <<[given |-> "Jane"]>>,
   <<[given |-> "Jane", affiliation |-> <<>>]>>,
   <<[affiliation |-> <<"Nowhere Institute">>]>>,
   <<[affiliation |-> <<"King's College, London, UK">>]>>,
   <<[affiliation |-> <<"University of Michigan, Ann Arbor, MI, USA">>],
     [affiliation |-> <<"Karolinska Institutet; Stockholm, Sweden">>]>>,
   <<[affiliation |-> <<"Department of Cardiology", "Aarhus University, Denmark">>],
     [given |-> "Jane"]>>}

WorkAnswers ==
  {[kind |-> "throws"], [kind |-> "notOk"], [kind |-> "ok", message |-> EmptyObject]}
    \cup {[kind |-> "ok", message |-> [author |-> a]] : a \in WorkAuthors}

\* enrichCountryForPaper with the answer its request meets.
enrichCountryForPaper(record, answer) ==
  IF Truthy(GetStr(record, "corrCountryCode")) \/ ~Truthy(GetStr(record, "doi"))
    THEN record
  ELSE IF answer.kind # "ok" THEN record
  ELSE IF "author" \notin DOMAIN answer.message THEN record
  ELSE IF Len(answer.message["author"]) = 0 THEN record
  ELSE LET inferred == inferCountryFromAuthors(answer.message["author"])
       IN IF inferred = NullCountry THEN record
          ELSE Spread(record, [corrCountryCode |-> inferred.code,
                               corrCountryName |-> inferred.name])

\* The corrected-country fields a record holds, as a mapping.
CorrOf(record) ==
  [key \in {"corrCountryCode", "corrCountryName"} \cap DOMAIN record |-> record[key]]

\* A stored record: the base record with or without a doi, a country and a
\* corrected country.
StoredRecords ==
  {Spread(OptStr(OptStr(NormBase, "doi", d), "country", c), carried) :
     d \in {Absent, "10.1/a"}, c \in NormCountries, carried \in CarriedCorrections}

\* The corrected country first set on the record: the one recorded, or the
\* one the record holds now when none was recorded yet.
FirstSet(recorded, record) == IF recorded # NoCorrection THEN recorded ELSE CorrOf(record)

InitCountry ==
  /\ stored \in StoredRecords
  /\ firstCorr = CorrOf(stored)
  /\ applied = 0
  /\ DedupIdle
  /\ MergeIdle
  /\ ResolveIdle
  /\ NormIdle
  /\ SearchIdle
  /\ TripIdle
  /\ BrowseIdle
  /\ BatchIdle
  /\ AddIdle
  /\ PostIdle

\* One application of enrichCountryForPaper to the stored record.
EnrichCountry(answer) ==
  /\ applied < MaxApplied
  /\ stored' = enrichCountryForPaper(stored, answer)
  /\ firstCorr' = FirstSet(firstCorr, stored')
  /\ applied' = applied + 1
  /\ UNCHANGED <<dedupVars, mergeVars, resolveVars, normVars, searchVars, tripVars, browseVars, batchVars, addVars, postVars>>

\* One application of normalize to the stored record.
NormalizeStored ==
  /\ applied < MaxApplied
  /\ stored' = normalizeRecords(<<stored>>)[1]
  /\ firstCorr' = FirstSet(firstCorr, stored')
  /\ applied' = applied + 1
  /\ UNCHANGED <<dedupVars, mergeVars, resolveVars, normVars, searchVars, tripVars, browseVars, batchVars, addVars, postVars>>

NextCountry ==
  \/ \E answer \in WorkAnswers : EnrichCountry(answer)
  \/ NormalizeStored

SpecCountry == InitCountry /\ [][NextCountry]_vars

\* ------------------------------------------------------------- search
\* QUICK_FILTERS: the term list of each named quick filter.
QUICK_FILTERS ==
  [name \in {"Cognitive", "Psychological", "QoL", "Participation/RTW", "Caregiver",
             "Return to Work", "Family/Key Supporter"} |->
     CASE name = "Cognitive" -> <<"cognitive">>
       [] name = "Psychological" -> <<"psychological">>
       [] name = "QoL" -> <<"qol", "quality of life">>
       [] name = "Participation/RTW" -> <<"participation", "return to work">>
       [] name = "Caregiver" -> <<"caregiver">>
       [] name = "Return to Work" -> <<"return to work", "vocational", "employment">>
       [] name = "Family/Key Supporter" -> <<"caregiver", "family", "supporter">>]

\* The members of a list, as a set.
Members(list) == {list[k] : k \in 1..Len(list)}

withinYearRangeExclusive(paper, years) ==
  paper["year"] >= years[1] /\ paper["year"] < years[2]

withinYearRange(paper, years) ==
  paper["year"] >= years[1] /\ paper["year"] <= years[2]

matchesFacetFilters(paper, state) ==
  IF /\ Len(state["domains"]) > 0
     /\ ~(/\ "domains" \in DOMAIN paper
          /\ \E domain \in Members(paper["domains"]) : domain \in Members(state["domains"]))
    THEN FALSE
  ELSE IF /\ Len(state["settings"]) > 0
          /\ (~Truthy(GetStr(paper, "setting"))
                \/ GetStr(paper, "setting") \notin Members(state["settings"]))
    THEN FALSE
  ELSE IF /\ Len(state["designs"]) > 0
          /\ (~Truthy(GetStr(paper, "design"))
                \/ GetStr(paper, "design") \notin Members(state["designs"]))
    THEN FALSE
  ELSE IF /\ Len(state["countries"]) > 0
          /\ (~Truthy(GetStr(paper, "country"))
                \/ GetStr(paper, "country") \notin Members(state["countries"]))
    THEN FALSE
  ELSE IF Len(state["journals"]) > 0 /\ paper["journal"] \notin Members(state["journals"])
    THEN FALSE
  ELSE TRUE

\* (list ?? []).join(' ').
JoinedOrEmpty(paper, key) ==
  IF key \in DOMAIN paper THEN JoinSpaces(paper[key], 1) ELSE ""

\* The text matchesQuickFilters searches, in lower case.
QuickFilterText(paper) ==
  ToLowerCase(paper["title"] \o " " \o paper["abstract"] \o " "
                \o JoinedOrEmpty(paper, "keywords") \o " " \o JoinedOrEmpty(paper, "domains"))

matchesQuickFilters(paper, state) ==
  IF ~Truthy(GetStr(state, "quickFilter")) THEN TRUE
  ELSE LET terms == IF state["quickFilter"] \in DOMAIN QUICK_FILTERS
                    THEN QUICK_FILTERS[state["quickFilter"]] ELSE <<>>
       IN IF Len(terms) = 0 THEN TRUE
          ELSE \E term \in Members(terms) : Includes(QuickFilterText(paper), ToLowerCase(term))

\* The callback of allPapers.filter in applySearch.
IsCandidate(paper, state) ==
  /\ withinYearRange(paper, state["years"])
  /\ matchesFacetFilters(paper, state)
  /\ matchesQuickFilters(paper, state)

\* array.filter: the members that satisfy the callback, in order.
RECURSIVE Candidates(_, _, _)
Candidates(list, state, i) ==
  IF i > Len(list) THEN <<>>
  ELSE (IF IsCandidate(list[i], state) THEN <<list[i]>> ELSE <<>>)
         \o Candidates(list, state, i + 1)

\* filter((t) => t.length >= 3) over the tokens from position i on, each
\* kept token turned into the include operator 'token in lower case.
RECURSIVE IncludeTerms(_, _)
IncludeTerms(tokens, i) ==
  IF i > Len(tokens) THEN <<>>
  ELSE (IF Len(tokens[i]) >= 3 THEN <<"'" \o ToLowerCase(tokens[i])>> ELSE <<>>)
         \o IncludeTerms(tokens, i + 1)

buildExtendedQuery(raw) ==
  LET terms == IncludeTerms(Tokens(Trim(raw), Whitespace, 1), 1)
  IN IF Len(terms) = 0 THEN Trim(raw) ELSE JoinSpaces(terms, 1)

\* Scores are counted in thousandths: 350 stands for 0.35.
GoodScoreLimit == 350

\* What the fuzzy library reports of one hit: its score and the keys of the
\* fields it matched in.
HitGrades ==
  {[score |-> 100, matches |-> <<"title">>],
   [score |-> 300, matches |-> <<"abstract", "authors">>],
   [score |-> 400, matches |-> <<"title">>],
   [score |-> 100, matches |-> <<"authors">>],
   [score |-> 200, matches |-> <<>>]}

\* What fuse.search may return over an index of the given positions: hits on
\* different documents, in any order, with any grades.
RECURSIVE FuseAnswers(_)
FuseAnswers(positions) ==
  {<<>>} \cup
    UNION {{<<[refIndex |-> i, score |-> g.score, matches |-> g.matches]>> \o rest :
              g \in HitGrades, rest \in FuseAnswers(positions \ {i})} :
           i \in positions}

\* The hits with their documents, as fuse.search hands them over.
WithItems(answer, candidates) ==
  [k \in 1..Len(answer) |->
     [item |-> candidates[answer[k].refIndex], refIndex |-> answer[k].refIndex,
      score |-> answer[k].score, matches |-> answer[k].matches]]

\* searchWithFallback: the strict answer, or the plain answer when the strict
\* one is empty.
searchWithFallback(strict, plain) == IF Len(strict) = 0 THEN plain ELSE strict

isGoodMatch(hit) ==
  IF hit.score > GoodScoreLimit THEN FALSE
  ELSE IF Len(hit.matches) > 0
          /\ ~(\E key \in Members(hit.matches) : key \in {"title", "abstract", "keywords"})
    THEN FALSE
  ELSE TRUE

RECURSIVE GoodResults(_, _)
GoodResults(hits, i) ==
  IF i > Len(hits) THEN <<>>
  ELSE (IF isGoodMatch(hits[i]) THEN <<hits[i]>> ELSE <<>>) \o GoodResults(hits, i + 1)

\* A comparator that breaks score ties by title alone.
scoreThenTitle(a, b) ==
  IF a.score # b.score THEN a.score - b.score
  ELSE localeCompare(a.item["title"], b.item["title"])

scoreThenYearThenTitle(a, b) ==
  IF a.score # b.score THEN a.score - b.score
  ELSE IF a.item["year"] # b.item["year"] THEN b.item["year"] - a.item["year"]
  ELSE localeCompare(a.item["title"], b.item["title"])

\* goodResults.sort(scoreThenYearThenTitle); the sort is stable.
RECURSIVE SortResults(_, _)
SortResults(list, n) ==
  IF n = 0 THEN <<>>
  ELSE LET sorted == SortResults(list, n - 1)
           x == list[n]
           before == Cardinality({k \in 1..Len(sorted) :
                                    scoreThenYearThenTitle(sorted[k], x) <= 0})
       IN SubSeq(sorted, 1, before) \o <<x>> \o SubSeq(sorted, before + 1, Len(sorted))

\* The comparator of sortByYearThenTitleDesc.
yearThenTitle(a, b) ==
  IF a["year"] # b["year"] THEN b["year"] - a["year"]
  ELSE localeCompare(a["title"], b["title"])

RECURSIVE SortByYear(_, _)
SortByYear(list, n) ==
  IF n = 0 THEN <<>>
  ELSE LET sorted == SortByYear(list, n - 1)
           x == list[n]
           before == Cardinality({k \in 1..Len(sorted) : yearThenTitle(sorted[k], x) <= 0})
       IN SubSeq(sorted, 1, before) \o <<x>> \o SubSeq(sorted, before + 1, Len(sorted))

sortByYearThenTitleDesc(list) == SortByYear(list, Len(list))

\* state.query?.trim() ?? ''.
TrimmedQuery(state) ==
  IF GetStr(state, "query") = Undefined THEN "" ELSE Trim(state["query"])

\* The papers of the model: normalized records that differ in year, title,
\* journal and in the fields the facets and the quick filters read.
SearchBase ==
  [id |-> "a", title |-> "Newer", authors |-> <<"Jane Doe">>, journal |-> "J",
   year |-> 2023, abstract |-> "Summary", links |-> EmptyObject,
   normalizedAuthors |-> <<"Doe J">>, isAbstractTruncated |-> "false"]

SearchPapers ==
  {Spread(SearchBase, [id |-> "p1", title |-> "Older", year |-> 2024,
                       domains |-> <<"Cognitive">>, setting |-> "OHCA",
                       design |-> "RCT", country |-> "Sweden"]),
   Spread(SearchBase, [id |-> "p2", title |-> "Banana", year |-> 2024, journal |-> "K",
                       abstract |-> "Quality of Life after arrest",
                       keywords |-> <<"Return to work">>,
                       domains |-> <<"QoL", "Participation">>, setting |-> "Unclear"]),
   Spread(SearchBase, [id |-> "p3"])}

\* defaultSearchState over the papers of the model.
SearchDefault ==
  [query |-> "", years |-> <<2023, 2024>>, domains |-> <<>>, settings |-> <<>>,
   designs |-> <<>>, countries |-> <<>>, journals |-> <<>>, quickFilter |-> Undefined]

\* The default state changed in one filter.
FilterVariants ==
  {SearchDefault}
    \cup {[SearchDefault EXCEPT !.years = y] :
            y \in {<<2024, 2024>>, <<2023, 2023>>, <<2025, 2026>>, <<2024, 2023>>}}
    \cup {[SearchDefault EXCEPT !.domains = d] : d \in {<<"Cognitive">>, <<"QoL", "Caregiver">>}}
    \cup {[SearchDefault EXCEPT !.settings = v] : v \in {<<"OHCA">>, <<"IHCA", "Unclear">>}}
    \cup {[SearchDefault EXCEPT !.designs = <<"RCT">>],
          [SearchDefault EXCEPT !.countries = <<"Sweden", "Denmark">>],
          [SearchDefault EXCEPT !.journals = <<"K">>]}
    \cup {[SearchDefault EXCEPT !.quickFilter = q] :
            q \in {"QoL", "Return to Work", "Unknown", ""}}

\* The filters a query is combined with.
QueriedVariants ==
  {SearchDefault,
   [SearchDefault EXCEPT !.years = <<2024, 2024>>],
   [SearchDefault EXCEPT !.domains = <<"Cognitive">>],
   [SearchDefault EXCEPT !.quickFilter = "QoL"]}

SearchStates ==
  FilterVariants
    \cup {[state EXCEPT !.query = "  "] : state \in FilterVariants}
    \cup {[state EXCEPT !.query = "Cardiac Arrest"] : state \in QueriedVariants}
    \cup {[SearchDefault EXCEPT !.query = " of "]}

InitSearch ==
  /\ allPapers \in SeqsUpTo(SearchPapers, MaxSearchPapers)
  /\ searchState \in SearchStates
  /\ searchDone = FALSE
  /\ fuseCalls = <<>>
  /\ plainHits = <<>>
  /\ ranked = <<>>
  /\ found = <<>>
  /\ DedupIdle
  /\ MergeIdle
  /\ ResolveIdle
  /\ NormIdle
  /\ CountryIdle
  /\ TripIdle
  /\ BrowseIdle
  /\ BatchIdle
  /\ AddIdle
  /\ PostIdle

\* The call applySearch(allPapers, searchState) with an empty query.
SearchUnqueried ==
  /\ ~searchDone
  /\ TrimmedQuery(searchState) = ""
  /\ searchDone' = TRUE
  /\ fuseCalls' = <<>>
  /\ plainHits' = <<>>
  /\ ranked' = <<>>
  /\ found' = sortByYearThenTitleDesc(Candidates(allPapers, searchState, 1))
  /\ UNCHANGED <<allPapers, searchState>>
  /\ UNCHANGED <<dedupVars, mergeVars, resolveVars, normVars, countryVars, tripVars, browseVars, batchVars, addVars, postVars>>

\* What the plain matcher may hold in store when it is not asked: nothing,
\* or one good hit on the first candidate.
UnaskedAnswers == {<<>>, <<[refIndex |-> 1, score |-> 100, matches |-> <<"title">>]>>}

\* The call applySearch(allPapers, searchState) with a query.  The fuzzy
\* library answers the strict query with strict; plain is its answer to the
\* query as given, which the call asks for only when strict is empty.
SearchQueried(strict, plain) ==
  /\ ~searchDone
  /\ TrimmedQuery(searchState) # ""
  /\ LET query == TrimmedQuery(searchState)
         candidates == Candidates(allPapers, searchState, 1)
         searchResults == WithItems(searchWithFallback(strict, plain), candidates)
         goodResults == GoodResults(searchResults, 1)
         sorted == SortResults(goodResults, Len(goodResults))
     IN /\ \A k \in 1..Len(strict) : strict[k].refIndex <= Len(candidates)
        /\ \A k \in 1..Len(plain) : plain[k].refIndex <= Len(candidates)
        /\ fuseCalls' = IF Len(strict) = 0 THEN <<buildExtendedQuery(query), query>>
                        ELSE <<buildExtendedQuery(query)>>
        /\ plainHits' = WithItems(plain, candidates)
        /\ ranked' = sorted
        /\ found' = [k \in 1..Len(sorted) |-> sorted[k].item]
  /\ searchDone' = TRUE
  /\ UNCHANGED <<allPapers, searchState>>
  /\ UNCHANGED <<dedupVars, mergeVars, resolveVars, normVars, countryVars, tripVars, browseVars, batchVars, addVars, postVars>>

\* The answers the fuzzy library may give to the strict query of the call at
\* hand: hits on the candidates; none when no query is to be asked.
StrictAnswers ==
  IF searchDone \/ TrimmedQuery(searchState) = "" THEN {}
  ELSE FuseAnswers(1..Len(Candidates(allPapers, searchState, 1)))

NextSearch ==
  \/ SearchUnqueried
  \/ \E strict \in StrictAnswers :
       \E plain \in (IF Len(strict) = 0 THEN StrictAnswers ELSE UnaskedAnswers) :
         SearchQueried(strict, plain)

SpecSearch == InitSearch /\ [][NextSearch]_vars

\* --------------------------------------------- search state and the URL
\* What URLSearchParams.get returns for a key the URL does not hold.
Null == "<null>"

\* URLSearchParams as the list of its name-value pairs.
ParamsGetAll(params, key) ==
  LET at == SelectSeq(params, LAMBDA pair : pair.k = key)
  IN [i \in 1..Len(at) |-> at[i].v]

ParamsGet(params, key) ==
  IF Len(ParamsGetAll(params, key)) = 0 THEN Null ELSE ParamsGetAll(params, key)[1]

ParamsDelete(params, key) == SelectSeq(params, LAMBDA pair : pair.k # key)

ParamsAppend(params, key, value) == Append(params, [k |-> key, v |-> value])

\* append every value of the list from position i on.
RECURSIVE ParamsAppendAll(_, _, _, _)
ParamsAppendAll(params, key, values, i) ==
  IF i > Len(values) THEN params
  ELSE ParamsAppendAll(ParamsAppend(params, key, values[i]), key, values, i + 1)

\* set: the first pair of that name takes the value and the others of that
\* name go; without one the pair is appended.
ParamsSet(params, key, value) ==
  IF Len(ParamsGetAll(params, key)) = 0 THEN ParamsAppend(params, key, value)
  ELSE LET first == CHOOSE i \in 1..Len(params) :
                      params[i].k = key /\ \A j \in 1..(i - 1) : params[j].k # key
       IN SubSeq(params, 1, first - 1) \o <<[k |-> key, v |-> value]>>
            \o ParamsDelete(SubSeq(params, first + 1, Len(params)), key)

\* The numbers that are none: NaN, and the undefined a destructuring yields
\* for a piece that is not there.
NotANumber == -9999999

UndefinedNumber == -9999998

\* `${n}` for a number or one of the two.
NumberText(n) ==
  IF n = NotANumber THEN "NaN"
  ELSE IF n = UndefinedNumber THEN "undefined" ELSE ToString(n)

\* The value of the digits of s from position i on, after the value so far.
RECURSIVE DigitsValue(_, _, _)
DigitsValue(s, i, sofar) ==
  IF i > Len(s) \/ Char(s, i) \notin Digits THEN sofar
  ELSE DigitsValue(s, i + 1, 10 * sofar + (CHOOSE d \in 0..9 : ToString(d) = Char(s, i)))

\* Number.parseInt(s, 10): leading white space, a sign, then the longest run
\* of digits; NaN without a digit.
ParseInt(s) ==
  LET start == SkipSpace(s, 1)
      signed == start <= Len(s) /\ Char(s, start) \in {"-", "+"}
      first == IF signed THEN start + 1 ELSE start
  IN IF first > Len(s) \/ Char(s, first) \notin Digits THEN NotANumber
     ELSE IF signed /\ Char(s, start) = "-" THEN 0 - DigitsValue(s, first, 0)
     ELSE DigitsValue(s, first, 0)

\* s.split(separator): the pieces between the separators, empty ones kept.
RECURSIVE SplitOn(_, _, _)
SplitOn(s, separator, i) ==
  LET next == FirstIndex(s, {separator}, i)
  IN IF next = 0 THEN <<SubSeq(s, i, Len(s))>>
     ELSE <<SubSeq(s, i, next - 1)>> \o SplitOn(s, separator, next + 1)

\* parseRange of parseStateFromUrl.
parseRange(params, key, otherwise) ==
  LET raw == ParamsGet(params, key)
  IN IF raw = Null \/ raw = "" THEN otherwise
     ELSE LET pieces == SplitOn(raw, ":", 1)
              start == ParseInt(pieces[1])
              end == IF Len(pieces) >= 2 THEN ParseInt(pieces[2]) ELSE UndefinedNumber
          IN IF start = NotANumber \/ end = NotANumber THEN otherwise ELSE <<start, end>>

\* parseMulti of parseStateFromUrl: getAll(key).filter(Boolean).
parseMulti(params, key) == SelectSeq(ParamsGetAll(params, key), LAMBDA value : value # "")

\* parseMulti(key).length ? parseMulti(key) : fallback.
MultiOr(params, key, otherwise) ==
  IF Len(parseMulti(params, key)) > 0 THEN parseMulti(params, key) ELSE otherwise

\* params.get(key) ?? fallback.
GetOr(params, key, otherwise) ==
  IF ParamsGet(params, key) = Null THEN otherwise ELSE ParamsGet(params, key)

\* A parseStateFromUrl that answers an absent parameter with the empty value
\* instead of the default.
parseStateFromUrlAbsentIsEmpty(params, defaults) ==
  [query |-> GetOr(params, "q", ""),
   years |-> parseRange(params, "years", defaults["years"]),
   domains |-> parseMulti(params, "domain"),
   settings |-> parseMulti(params, "setting"),
   designs |-> parseMulti(params, "design"),
   countries |-> parseMulti(params, "country"),
   journals |-> parseMulti(params, "journal"),
   quickFilter |-> GetOr(params, "quick", Undefined)]

parseStateFromUrl(params, defaults) ==
  [query |-> GetOr(params, "q", defaults["query"]),
   years |-> parseRange(params, "years", defaults["years"]),
   domains |-> MultiOr(params, "domain", defaults["domains"]),
   settings |-> MultiOr(params, "setting", defaults["settings"]),
   designs |-> MultiOr(params, "design", defaults["designs"]),
   countries |-> MultiOr(params, "country", defaults["countries"]),
   journals |-> MultiOr(params, "journal", defaults["journals"]),
   quickFilter |-> GetOr(params, "quick", defaults["quickFilter"])]

\* if (value) params.set(key, value) else params.delete(key).
SetOrDelete(params, key, value) ==
  IF Truthy(value) THEN ParamsSet(params, key, value) ELSE ParamsDelete(params, key)

\* A replacement of a facet's parameters that appends without deleting.
ReplaceMultiKeepsOld(params, key, values) == ParamsAppendAll(params, key, values, 1)

\* params.delete(key); values.forEach((value) => params.append(key, value)).
ReplaceMulti(params, key, values) == ParamsAppendAll(ParamsDelete(params, key), key, values, 1)

\* A serializeStateToUrl that leaves the quick parameter as it finds it when
\* the state has no quick filter.
serializeStateToUrlKeepsQuick(state, params) ==
  LET withQuery == SetOrDelete(params, "q", state["query"])
      withYears == ParamsSet(withQuery, "years",
                             NumberText(state["years"][1]) \o ":" \o NumberText(state["years"][2]))
      withMulti ==
        ReplaceMulti(ReplaceMulti(ReplaceMulti(ReplaceMulti(ReplaceMulti(withYears,
          "domain", state["domains"]), "setting", state["settings"]),
          "design", state["designs"]), "country", state["countries"]),
          "journal", state["journals"])
  IN IF Truthy(state["quickFilter"]) THEN ParamsSet(withMulti, "quick", state["quickFilter"])
     ELSE withMulti

serializeStateToUrl(state, params) ==
  LET withQuery == SetOrDelete(params, "q", state["query"])
      withYears == ParamsSet(withQuery, "years",
                             NumberText(state["years"][1]) \o ":" \o NumberText(state["years"][2]))
      withMulti ==
        ReplaceMulti(ReplaceMulti(ReplaceMulti(ReplaceMulti(ReplaceMulti(withYears,
          "domain", state["domains"]), "setting", state["settings"]),
          "design", state["designs"]), "country", state["countries"]),
          "journal", state["journals"])
  IN SetOrDelete(withMulti, "quick", state["quickFilter"])

\* A state with every field set, and that state changed in one field.
TripBase ==
  [query |-> "arrest", years |-> <<2020, 2024>>, domains |-> <<"QoL">>,
   settings |-> <<"OHCA">>, designs |-> <<"RCT">>, countries |-> <<"Sweden">>,
   journals |-> <<"J">>, quickFilter |-> "QoL"]

TripStates ==
  {TripBase}
    \cup {[TripBase EXCEPT !.query = q] : q \in {"", " ", "cardiac arrest"}}
    \cup {[TripBase EXCEPT !.years = y] :
            y \in {<<2024, 2020>>, <<0, 2024>>, <<-5, 5>>, <<2020, UndefinedNumber>>,
                   <<NotANumber, 2024>>}}
    \cup {[TripBase EXCEPT !.domains = d] :
            d \in {<<>>, <<"QoL", "Cognitive">>, <<"Cognitive", "QoL">>, <<"", "QoL">>}}
    \cup {[TripBase EXCEPT !.settings = <<>>], [TripBase EXCEPT !.designs = <<>>],
          [TripBase EXCEPT !.countries = <<>>]}
    \cup {[TripBase EXCEPT !.journals = j] : j \in {<<>>, <<"">>}}
    \cup {[TripBase EXCEPT !.quickFilter = q] : q \in {Undefined, "", "Unknown"}}
    \cup {[query |-> "", years |-> <<2020, 2024>>, domains |-> <<>>, settings |-> <<>>,
           designs |-> <<>>, countries |-> <<>>, journals |-> <<>>,
           quickFilter |-> Undefined]}

\* The defaults handed to parseStateFromUrl: those of defaultSearchState, and
\* defaults with every field set.
TripDefaults ==
  {SearchDefault,
   [query |-> "default", years |-> <<1990, 1999>>, domains |-> <<"Caregiver">>,
    settings |-> <<"IHCA">>, designs |-> <<"Cohort">>, countries |-> <<"Denmark">>,
    journals |-> <<"K">>, quickFilter |-> "Caregiver"]}

\* The parameters of the URL serialized onto: none, one of another name, and
\* stale search parameters around one of another name.
TripUrls ==
  {<<>>,
   <<[k |-> "page", v |-> "2"]>>,
   <<[k |-> "q", v |-> "old"], [k |-> "domain", v |-> "Stale"], [k |-> "page", v |-> "2"],
     [k |-> "q", v |-> "older"], [k |-> "quick", v |-> "Cognitive"],
     [k |-> "years", v |-> "1990:1999"], [k |-> "journal", v |-> "Z"]>>}

InitTrip ==
  /\ tripIn \in [state : TripStates, url : TripUrls, defaults : TripDefaults]
  /\ tripDone = FALSE
  /\ tripUrl = <<>>
  /\ tripOut = EmptyObject
  /\ DedupIdle
  /\ MergeIdle
  /\ ResolveIdle
  /\ NormIdle
  /\ CountryIdle
  /\ SearchIdle
  /\ BrowseIdle
  /\ BatchIdle
  /\ AddIdle
  /\ PostIdle

\* parseStateFromUrl(serializeStateToUrl(state, url), defaults).
RoundTrip ==
  /\ ~tripDone
  /\ tripDone' = TRUE
  /\ tripUrl' = serializeStateToUrl(tripIn.state, tripIn.url)
  /\ tripOut' = parseStateFromUrl(serializeStateToUrl(tripIn.state, tripIn.url),
                                  tripIn.defaults)
  /\ UNCHANGED tripIn
  /\ UNCHANGED <<dedupVars, mergeVars, resolveVars, normVars, countryVars, searchVars, browseVars, batchVars, addVars, postVars>>

NextTrip == RoundTrip

SpecTrip == InitTrip /\ [][NextTrip]_vars

\* ------------------------------------------------------ the browse page
\* The query text of a URL: the characters application/x-www-form-urlencoded
\* writes as themselves are the letters, the digits and * - . _ ; a space is
\* written as + and every other character as a percent escape.
PercentEscapes ==
  {<<" ", "%20">>, <<"%", "%25">>, <<"&", "%26">>, <<"+", "%2B">>, <<":", "%3A">>,
   <<"<", "%3C">>, <<"=", "%3D">>, <<">", "%3E">>}

RECURSIVE FormEncode(_, _)
FormEncode(s, i) ==
  IF i > Len(s) THEN ""
  ELSE LET c == Char(s, i)
           written ==
             IF c = " " THEN "+"
             ELSE IF \E e \in PercentEscapes : e[1] = c
                  THEN (CHOOSE e \in PercentEscapes : e[1] = c)[2]
                  ELSE c
       IN written \o FormEncode(s, i + 1)

RECURSIVE FormDecode(_, _)
FormDecode(s, i) ==
  IF i > Len(s) THEN ""
  ELSE IF Char(s, i) = "+" THEN " " \o FormDecode(s, i + 1)
  ELSE IF /\ Char(s, i) = "%"
          /\ i + 2 <= Len(s)
          /\ \E e \in PercentEscapes : e[2] = SubSeq(s, i, i + 2)
       THEN (CHOOSE e \in PercentEscapes : e[2] = SubSeq(s, i, i + 2))[1]
              \o FormDecode(s, i + 3)
       ELSE Char(s, i) \o FormDecode(s, i + 1)

\* url.toString(): the pairs of url.searchParams as name=value joined by &.
RECURSIVE SerializeParams(_, _)
SerializeParams(params, i) ==
  IF i > Len(params) THEN ""
  ELSE (IF i > 1 THEN "&" ELSE "")
         \o FormEncode(params[i].k, 1) \o "=" \o FormEncode(params[i].v, 1)
         \o SerializeParams(params, i + 1)

\* One piece of the query text as a pair: name and value part at the first =.
ParsePair(piece) ==
  LET at == FirstIndex(piece, {"="}, 1)
  IN IF at = 0 THEN [k |-> FormDecode(piece, 1), v |-> ""]
     ELSE [k |-> FormDecode(SubSeq(piece, 1, at - 1), 1),
           v |-> FormDecode(SubSeq(piece, at + 1, Len(piece)), 1)]

\* new URL(href).searchParams: the pieces between the & signs, empty pieces
\* skipped.
ParseParams(text) ==
  LET pieces == SelectSeq(SplitOn(text, "&", 1), LAMBDA piece : piece # "")
  IN [i \in 1..Len(pieces) |-> ParsePair(pieces[i])]

\* The query texts a page is opened with.
BrowseHrefs ==
  {"",
   "page=2",
   "q=old&domain=Stale&page=2&q=older&quick=Cognitive&years=1990%3A1999&journal=Z",
   "years=2020",
   "tab=a%20b&years=2024:2020&domain=QoL&domain=Cognitive",
   "quick=&q=a%26b+c&ref=x%3Dy"}

\* The number of handlers followed on one page.
MaxChanges == 3

\* The papers of the page, their years and the defaults made of them.
BrowseYears == {paper["year"] : paper \in SearchPapers}

\* The values a year slider reports: the text of a year between its min and
\* its max.
SliderValues == {ToString(year) : year \in BrowseYears}

\* The values the checkboxes of each facet list offer.
FacetOffers ==
  [domains |-> {"QoL", "Cognitive"}, settings |-> {"OHCA"}, designs |-> {"RCT"},
   countries |-> {"Sweden"}, journals |-> {"K"}]

\* The texts typed into the search box.
TypedQueries == {"", "cardiac arrest"}

\* The quick filter buttons pressed.
PressedQuickFilters == {"QoL", "Cognitive"}

\* a > b and a <= b of JavaScript on numbers, NaN and undefined: a comparison
\* with NaN or undefined is false.
JsGreater(a, b) ==
  /\ {a, b} \cap {NotANumber, UndefinedNumber} = {}
  /\ a > b

JsLessOrEqual(a, b) ==
  /\ {a, b} \cap {NotANumber, UndefinedNumber} = {}
  /\ a <= b

\* toggleValue.
toggleValue(values, value) ==
  IF value \in Members(values) THEN SelectSeq(values, LAMBDA v : v # value)
  ELSE Append(values, value)

\* The years handleYearChange sets, without the repair of a crossed range.
YearsAfterChangeUnrepaired(years, index, value) ==
  [years EXCEPT ![index + 1] = value]

\* The years handleYearChange sets: the bound at index becomes the value, and
\* when the start then exceeds the end the other bound follows.
YearsAfterChange(years, index, value) ==
  LET next == [years EXCEPT ![index + 1] = value]
  IN IF JsGreater(next[1], next[2])
     THEN IF index = 0 THEN [next EXCEPT ![2] = value] ELSE [next EXCEPT ![1] = value]
     ELSE next

\* The effect of useSearchState: the state is serialized onto the URL of the
\* page and the text of the result replaces the location.
HrefAfterEffect(state, href) ==
  SerializeParams(serializeStateToUrl(state, ParseParams(href)), 1)

InitBrowse ==
  /\ browseStart \in BrowseHrefs
  /\ browseHref = browseStart
  /\ browseMounted = FALSE
  /\ browseState = EmptyObject
  /\ browseLast = EmptyObject
  /\ browseChanges = 0
  /\ DedupIdle
  /\ MergeIdle
  /\ ResolveIdle
  /\ NormIdle
  /\ CountryIdle
  /\ SearchIdle
  /\ TripIdle
  /\ BatchIdle
  /\ AddIdle
  /\ PostIdle

\* setState(next) of a handler, and the effect that follows it.
SetState(handler, index, value, next) ==
  /\ browseChanges < MaxChanges
  /\ browseState' = next
  /\ browseHref' = HrefAfterEffect(next, browseHref)
  /\ browseLast' = [handler |-> handler, index |-> index, value |-> value,
                    prior |-> browseState]
  /\ browseChanges' = browseChanges + 1
  /\ UNCHANGED <<browseStart, browseMounted>>
  /\ UNCHANGED <<dedupVars, mergeVars, resolveVars, normVars, countryVars, searchVars,
                 tripVars, batchVars, addVars, postVars>>

\* useSearchState on the first render: the state parsed from the location,
\* and the effect that writes it back.
Mount ==
  /\ ~browseMounted
  /\ browseMounted' = TRUE
  /\ browseState' = parseStateFromUrl(ParseParams(browseHref), SearchDefault)
  /\ browseHref' = HrefAfterEffect(parseStateFromUrl(ParseParams(browseHref), SearchDefault),
                                   browseHref)
  /\ UNCHANGED <<browseStart, browseLast, browseChanges>>
  /\ UNCHANGED <<dedupVars, mergeVars, resolveVars, normVars, countryVars, searchVars,
                 tripVars, batchVars, addVars, postVars>>

\* The handlers of the rendered page.
handleYearChange(index, text) ==
  /\ browseMounted
  /\ SetState("handleYearChange", index, ParseInt(text),
              [browseState EXCEPT !["years"] =
                 YearsAfterChange(browseState["years"], index, ParseInt(text))])

updateQuery(text) ==
  /\ browseMounted
  /\ SetState("updateQuery", 0, 0, [browseState EXCEPT !["query"] = text])

ToggleFacet(key, value) ==
  /\ browseMounted
  /\ SetState("toggleValue", 0, 0,
              [browseState EXCEPT ![key] = toggleValue(browseState[key], value)])

PressQuickFilter(label) ==
  /\ browseMounted
  /\ SetState("quickFilter", 0, 0,
              [browseState EXCEPT !["quickFilter"] =
                 IF browseState["quickFilter"] = label THEN Undefined ELSE label])

ResetFilters ==
  /\ browseMounted
  /\ SetState("reset", 0, 0, SearchDefault)

NextBrowse ==
  \/ Mount
  \/ \E index \in {0, 1} : \E text \in SliderValues : handleYearChange(index, text)
  \/ \E text \in TypedQueries : updateQuery(text)
  \/ \E key \in DOMAIN FacetOffers : \E value \in FacetOffers[key] : ToggleFacet(key, value)
  \/ \E label \in PressedQuickFilters : PressQuickFilter(label)
  \/ ResetFilters

SpecBrowse == InitBrowse /\ [][NextBrowse]_vars

\* ------------------------------------------- the batch country enrichment
\* The try block of enrichCountryForPaper with the answer its request meets:
\* what it returns, or that it threw.
EnrichAttempt(record, answer) ==
  IF answer.kind = "throws" THEN [threw |-> TRUE, value |-> record]
  ELSE [threw |-> FALSE, value |-> enrichCountryForPaper(record, answer)]

\* Whether enrichCountryForPaper returns before its request.
EnrichSkipped(record) ==
  Truthy(GetStr(record, "corrCountryCode")) \/ ~Truthy(GetStr(record, "doi"))

\* An enrichCountryForPaper without the catch around its request.
EnrichCallUncaught(record, answer) ==
  IF EnrichSkipped(record) THEN [threw |-> FALSE, value |-> record]
  ELSE EnrichAttempt(record, answer)

\* await enrichCountryForPaper(paper) as main sees it: the catch turns what
\* the try block threw into the record as it was.
EnrichCall(record, answer) ==
  IF EnrichSkipped(record) THEN [threw |-> FALSE, value |-> record]
  ELSE IF EnrichAttempt(record, answer).threw THEN [threw |-> FALSE, value |-> record]
  ELSE EnrichAttempt(record, answer)

\* records.filter((paper) => !paper.country && !paper.corrCountryName).
BatchTargets(records) ==
  SelectSeq(records, LAMBDA paper :
    ~Truthy(GetStr(paper, "country")) /\ ~Truthy(GetStr(paper, "corrCountryName")))

\* records.map((paper) => enrichedById.get(paper.id) ?? paper).
UpdatedRecords(records, enrichedById) ==
  [k \in 1..Len(records) |->
     IF records[k]["id"] \in DOMAIN enrichedById THEN enrichedById[records[k]["id"]]
     ELSE records[k]]

\* The longest raw store the batch runs over.
MaxBatch == 2

\* The record stored at a position: without country and with a doi, without
\* country and without a doi, with a country, or with a corrected country.
BatchKinds == {"doi", "bare", "country", "corrected"}

BatchRecord(kind, position) ==
  LET id == "r" \o ToString(position)
      base == [NormBase EXCEPT !.id = id, !.title = "Paper " \o id]
      withDoi == With(base, "doi", "10.1/" \o id)
  IN CASE kind = "doi" -> withDoi
       [] kind = "bare" -> base
       [] kind = "country" -> With(withDoi, "country", "Sweden")
       [] kind = "corrected" ->
            Spread(withDoi, [corrCountryCode |-> "DK", corrCountryName |-> "Denmark"])

\* The stores of n records.
RECURSIVE StoresOfLength(_)
StoresOfLength(n) ==
  IF n = 0 THEN {<<>>}
  ELSE {Append(store, BatchRecord(kind, n)) :
          store \in StoresOfLength(n - 1), kind \in BatchKinds}

BatchStores == UNION {StoresOfLength(n) : n \in 0..MaxBatch}

\* What the request of one target meets.
BatchAnswers ==
  {[kind |-> "throws"], [kind |-> "notOk"], [kind |-> "ok", message |-> EmptyObject],
   [kind |-> "ok",
    message |-> [author |-> <<[affiliation |-> <<"Karolinska Institutet; Stockholm, Sweden">>]>>]]}

InitBatch ==
  /\ batchRaw \in BatchStores
  /\ batchNormalized = normalizeRecords(batchRaw)
  /\ batchDryRun \in BOOLEAN
  /\ batchPc = "start"
  /\ batchRecords = <<>>
  /\ batchEnriched = EmptyObject
  /\ batchCalls = <<>>
  /\ DedupIdle
  /\ MergeIdle
  /\ ResolveIdle
  /\ NormIdle
  /\ CountryIdle
  /\ SearchIdle
  /\ TripIdle
  /\ BrowseIdle
  /\ AddIdle
  /\ PostIdle

\* main up to the first await: the store is loaded and the targets are
\* picked; without targets main returns.
BatchStart ==
  /\ batchPc = "start"
  /\ batchRecords' = batchRaw
  /\ batchPc' = IF Len(BatchTargets(batchRaw)) = 0 THEN "done" ELSE "loop"
  /\ UNCHANGED <<batchRaw, batchNormalized, batchDryRun, batchEnriched, batchCalls>>
  /\ UNCHANGED <<dedupVars, mergeVars, resolveVars, normVars, countryVars, searchVars,
                 tripVars, browseVars, addVars, postVars>>

\* One await of the loop resumes: the target's result is recorded; a throw
\* ends main; after the last target the records are mapped and, unless this
\* is a dry run, both stores are written.
BatchIterate(answer) ==
  /\ batchPc = "loop"
  /\ \E paper \in {BatchTargets(batchRecords)[Len(batchCalls) + 1]} :
       \E call \in {EnrichCall(paper, answer)} :
         /\ batchCalls' = Append(batchCalls,
                                 [id |-> paper["id"],
                                  failed |-> ~EnrichSkipped(paper)
                                               /\ answer.kind \in {"throws", "notOk"}])
         /\ IF call.threw
            THEN /\ batchPc' = "aborted"
                 /\ UNCHANGED <<batchRaw, batchNormalized, batchEnriched>>
            ELSE /\ batchEnriched' = With(batchEnriched, paper["id"], call.value)
                 /\ IF Len(batchCalls) + 1 < Len(BatchTargets(batchRecords))
                    THEN /\ batchPc' = "loop"
                         /\ UNCHANGED <<batchRaw, batchNormalized>>
                    ELSE /\ batchPc' = "done"
                         /\ IF batchDryRun
                            THEN UNCHANGED <<batchRaw, batchNormalized>>
                            ELSE /\ batchRaw' = UpdatedRecords(batchRecords, batchEnriched')
                                 /\ batchNormalized' = normalizeRecords(batchRaw')
  /\ UNCHANGED <<batchDryRun, batchRecords>>
  /\ UNCHANGED <<dedupVars, mergeVars, resolveVars, normVars, countryVars, searchVars,
                 tripVars, browseVars, addVars, postVars>>

NextBatch ==
  \/ BatchStart
  \/ \E answer \in BatchAnswers : BatchIterate(answer)

SpecBatch == InitBatch /\ [][NextBatch]_vars

\* ---------------------------------------------------------- adding a paper
\* sortRecords of add-paper.ts and of the POST route: the comparator of
\* normalizeRecords.
sortRecords(records) == SortPapers(records, Len(records))

\* x?.toLowerCase().
LowerOrUndefined(x) == IF x = Undefined THEN Undefined ELSE ToLowerCase(x)

\* One record of the store against the candidate, as hasDuplicate tests it.
CliMatches(record, candidate) ==
  \/ record["id"] = candidate["id"]
  \/ \E key \in {"pmid", "pmcid", "doi"} :
       /\ Truthy(LowerOrUndefined(GetStr(candidate, key)))
       /\ Truthy(GetStr(record, key))
       /\ ToLowerCase(GetStr(record, key)) = LowerOrUndefined(GetStr(candidate, key))

\* A hasDuplicate that compares the identifiers as they are written.
hasDuplicateCaseSensitive(records, candidate) ==
  LET hits == {k \in 1..Len(records) :
                 \/ records[k]["id"] = candidate["id"]
                 \/ \E key \in {"pmid", "pmcid", "doi"} :
                      /\ Truthy(GetStr(candidate, key))
                      /\ GetStr(records[k], key) = GetStr(candidate, key)}
  IN IF hits = {} THEN Undefined
     ELSE records[CHOOSE k \in hits : \A j \in hits : k <= j]["id"]

\* hasDuplicate: the id of the first record that matches, or undefined.
hasDuplicate(records, candidate) ==
  LET hits == {k \in 1..Len(records) : CliMatches(records[k], candidate)}
  IN IF hits = {} THEN Undefined
     ELSE records[CHOOSE k \in hits : \A j \in hits : k <= j]["id"]

\* One record of the store against the candidate, as findDuplicateId tests it.
PostMatches(record, candidate) ==
  \/ record["id"] = candidate["id"]
  \/ \E key \in {"pmid", "doi"} :
       /\ Truthy(LowerOrUndefined(GetStr(candidate, key)))
       /\ LowerOrUndefined(GetStr(record, key)) = LowerOrUndefined(GetStr(candidate, key))

\* findDuplicateId of the POST route.
findDuplicateId(records, candidate) ==
  LET hits == {k \in 1..Len(records) : PostMatches(records[k], candidate)}
  IN IF hits = {} THEN Undefined
     ELSE records[CHOOSE k \in hits : \A j \in hits : k <= j]["id"]

\* The flags of parseArgs that take a value.
ValueFlags == {"--doi", "--pmid", "--pmcid", "--id-type", "--id", "--preview"}

StartsWithDashes(s) == Len(s) >= 2 /\ SubSeq(s, 1, 2) = "--"

\* What one token of the command line does to the options; value is
\* inlineValue ?? nextValue.
OptionsAfter(options, flag, value) ==
  CASE flag = "--doi" -> With(options, "doi", value)
    [] flag = "--pmid" -> With(options, "pmid", value)
    [] flag = "--pmcid" -> With(options, "pmcid", value)
    [] flag = "--id-type" ->
         IF Truthy(value) THEN With(options, "idType", ToUpperCase(value)) ELSE options
    [] flag = "--id" -> With(options, "identifier", value)
    [] flag = "--preview" ->
         IF value = Undefined THEN With(options, "preview", "true")
         ELSE With(options, "preview",
                   IF ToLowerCase(Trim(value)) \in {"true", "1"} THEN "true" ELSE "false")
    [] flag \in {"--dry-run", "--print"} -> With(options, "dryRun", "true")
    [] flag = "--pretty" -> With(options, "pretty", "true")
    [] OTHER -> options

\* The flag of token i, and its value: inlineValue ?? nextValue.
FlagAt(args, i) == SplitOn(args[i], "=", 1)[1]

NextValueAt(args, i) ==
  IF i + 1 <= Len(args) /\ args[i + 1] # "" /\ ~StartsWithDashes(args[i + 1])
  THEN args[i + 1] ELSE Undefined

ValueAt(args, i) ==
  IF Len(SplitOn(args[i], "=", 1)) >= 2 THEN SplitOn(args[i], "=", 1)[2]
  ELSE NextValueAt(args, i)

\* consumeValue steps over the next token when the value was taken from it.
ConsumesNext(args, i) ==
  /\ FlagAt(args, i) \in ValueFlags
  /\ Truthy(ValueAt(args, i))
  /\ ValueAt(args, i) = NextValueAt(args, i)

\* Whether the loop of parseArgs stops at token i: it does unless the token
\* before it was stopped at and consumed it.
RECURSIVE VisitedAt(_, _)
VisitedAt(args, i) ==
  IF i = 1 THEN TRUE ELSE ~(VisitedAt(args, i - 1) /\ ConsumesNext(args, i - 1))

\* The options after the first n tokens.
RECURSIVE OptionsUpTo(_, _)
OptionsUpTo(args, n) ==
  IF n = 0 THEN EmptyObject
  ELSE IF VisitedAt(args, n)
       THEN OptionsAfter(OptionsUpTo(args, n - 1), FlagAt(args, n), ValueAt(args, n))
       ELSE OptionsUpTo(args, n - 1)

parseArgs(args) == OptionsUpTo(args, Len(args))

\* a ?? b on strings.
Coalesce(a, b) == IF a # Undefined THEN a ELSE b

\* idType and identifier of main.
IdTypeOf(options) ==
  Coalesce(GetStr(options, "idType"),
           IF Truthy(GetStr(options, "doi")) THEN "DOI"
           ELSE IF Truthy(GetStr(options, "pmid")) THEN "PMID"
           ELSE IF Truthy(GetStr(options, "pmcid")) THEN "PMCID" ELSE Undefined)

IdentifierOf(options) ==
  Coalesce(GetStr(options, "identifier"),
    Coalesce(GetStr(options, "doi"),
      Coalesce(GetStr(options, "pmid"), GetStr(options, "pmcid"))))

\* preview of main: options.preview ?? options.dryRun ?? false.
PreviewOf(options) ==
  Coalesce(GetStr(options, "preview"), Coalesce(GetStr(options, "dryRun"), "false")) = "true"

\* The command lines add-paper is run with.
AddCommandLines ==
  {<<"--doi", "10.1/a">>,
   <<"--pmid=111">>,
   <<"--id-type", "doi", "--id", "10.1/a", "--pretty">>,
   <<"--id-type", "isbn", "--id", "10.1/a">>,
   <<"--doi", " ">>,
   <<"--dry-run">>,
   <<"--doi", "10.1/a", "--dry-run">>,
   <<"--pmid", "111", "--print">>,
   <<"--preview", "--doi", "10.1/a">>,
   <<"--id-type", "DOI", "--id", "10.1/a", "--preview", "true">>,
   <<"--doi=10.1/a", "--preview", "false">>,
   <<"--doi", "10.1/a", "--dry-run", "--preview", "false">>}

\* The payloads posted to the route.
AddPayloads ==
  {EmptyObject, [doi |-> " "], [doi |-> "10.1/a"], [pmid |-> "111"],
   [doi |-> "10.1/a", dryRun |-> "true"], [pmid |-> " 111 ", dryRun |-> "false"]}

\* A record as the resolver returns it: its id is its PMID, or its DOI when
\* it has no PMID.
AddRecord(title, year, doi, pmid, pmcid) ==
  OptStr(OptStr(OptStr([NormBase EXCEPT !.id = IF pmid # Absent THEN pmid ELSE doi,
                                        !.title = title, !.year = year],
                       "doi", doi), "pmid", pmid), "pmcid", pmcid)

AddCandidates ==
  {AddRecord("Older", 2023, "10.1/a", "111", Absent),
   AddRecord("Newer", 2024, "10.1/A", Absent, Absent),
   AddRecord("apple", 2024, Absent, "111", Absent),
   AddRecord("Banana", 2023, "10.2/b", Absent, "PMC9"),
   AddRecord("Cardiac arrest study", 2024, "10.3/c", "333", "pmc9"),
   AddRecord("OHCA outcomes", 2023, Absent, "444", Absent)}

\* What fetchPaperByIdentifier comes to: a record, a PaperLookupError, or
\* another error.
FetchOutcomes ==
  {[kind |-> "record", record |-> c] : c \in AddCandidates}
    \cup {[kind |-> "lookupError", record |-> EmptyObject],
          [kind |-> "error", record |-> EmptyObject]}

\* parseArgs over the command lines used.
ParsedCommandLine == [args \in AddCommandLines |-> parseArgs(args)]

\* Two records share their id, or a DOI or a PMID without regard to case.
SharesKey(a, b) ==
  \/ ToLowerCase(a["id"]) = ToLowerCase(b["id"])
  \/ \E key \in {"doi", "pmid"} :
       /\ Truthy(GetStr(a, key))
       /\ Truthy(GetStr(b, key))
       /\ ToLowerCase(GetStr(a, key)) = ToLowerCase(GetStr(b, key))

NoSharedKeys(records) ==
  \A i \in 1..Len(records) : \A j \in 1..Len(records) :
    i # j => ~SharesKey(records[i], records[j])

\* The number of add operations followed.
MaxAdds == 2

\* The raw stores the operations start from: no record, or one.
AddStores == {<<>>} \cup {<<c>> : c \in AddCandidates}

InitAdd ==
  /\ addRaw \in AddStores
  /\ addNormalized = normalizeRecords(addRaw)
  /\ addLast = EmptyObject
  /\ addCount = 0
  /\ DedupIdle
  /\ MergeIdle
  /\ ResolveIdle
  /\ NormIdle
  /\ CountryIdle
  /\ SearchIdle
  /\ TripIdle
  /\ BrowseIdle
  /\ BatchIdle
  /\ PostIdle

\* What an operation leaves behind: the outcome, and the stores when it
\* wrote them.
AddEnds(channel, dry, ending, wrote, updated) ==
  /\ addLast' = [channel |-> channel, dry |-> dry, outcome |-> ending,
                 rawBefore |-> addRaw, normalizedBefore |-> addNormalized]
  /\ addCount' = addCount + 1
  /\ IF wrote
     THEN /\ addRaw' = updated
          /\ addNormalized' = normalizeRecords(addRaw')
     ELSE UNCHANGED <<addRaw, addNormalized>>
  /\ UNCHANGED <<dedupVars, mergeVars, resolveVars, normVars, countryVars, searchVars,
                 tripVars, browseVars, batchVars, postVars>>

\* Whether the command line asks for a run that modifies no file: --dry-run
\* (or its other name --print), or --preview true.
AsksDryRun(args) ==
  \/ \E i \in 1..Len(args) : SplitOn(args[i], "=", 1)[1] \in {"--dry-run", "--print"}
  \/ GetStr(ParsedCommandLine[args], "preview") = "true"

\* How a run of add-paper.ts ends.
CliEnding(options, fetched, existing) ==
  IF ~Truthy(IdTypeOf(options)) \/ ~Truthy(IdentifierOf(options)) THEN "usage"
  ELSE IF IdTypeOf(options) \notin {"DOI", "PMID", "PMCID"} THEN "invalid id type"
  ELSE IF Trim(IdentifierOf(options)) = "" THEN "empty identifier"
  ELSE IF fetched.kind = "lookupError" THEN "lookup error"
  ELSE IF fetched.kind = "error" THEN "thrown"
  ELSE IF PreviewOf(options) THEN "printed"
  ELSE IF Truthy(hasDuplicate(existing, fetched.record)) THEN "duplicate"
  ELSE "added"

\* One run of add-paper.ts.
CliAdd(args, fetched) ==
  /\ addCount < MaxAdds
  /\ \E ending \in {CliEnding(ParsedCommandLine[args], fetched, addRaw)} :
       AddEnds("cli", IF AsksDryRun(args) THEN "true" ELSE "false", ending,
               ending = "added",
               IF ending = "added" THEN sortRecords(Append(addRaw, fetched.record))
               ELSE addRaw)

\* payload.key?.trim().
TrimOrUndefined(x) == IF x = Undefined THEN Undefined ELSE Trim(x)

\* How a request ends: the status of its response, and persisted for a 200.
PostEnding(payload, fetched, existing) ==
  IF /\ ~Truthy(TrimOrUndefined(GetStr(payload, "doi")))
     /\ ~Truthy(TrimOrUndefined(GetStr(payload, "pmid"))) THEN "400"
  ELSE IF fetched.kind = "lookupError" THEN "422"
  ELSE IF fetched.kind = "error" THEN "500"
  ELSE IF Truthy(findDuplicateId(existing, fetched.record)) THEN "409"
  ELSE IF GetStr(payload, "dryRun") = "true" THEN "200 persisted false"
  ELSE "200 persisted true"

\* One POST request served from its start to its response, no other request
\* in between.
PostAdd(payload, fetched) ==
  /\ addCount < MaxAdds
  /\ \E ending \in {PostEnding(payload, fetched, addRaw)} :
       AddEnds("post", IF GetStr(payload, "dryRun") = "true" THEN "true" ELSE "false",
               ending, ending = "200 persisted true",
               IF ending = "200 persisted true"
               THEN sortRecords(Append(addRaw, fetched.record)) ELSE addRaw)

\* Whether the run, or the request, gets as far as fetchPaperByIdentifier.
CliFetches(args) ==
  LET options == ParsedCommandLine[args]
  IN /\ Truthy(IdTypeOf(options))
     /\ Truthy(IdentifierOf(options))
     /\ IdTypeOf(options) \in {"DOI", "PMID", "PMCID"}
     /\ Trim(IdentifierOf(options)) # ""

PostFetches(payload) ==
  \/ Truthy(TrimOrUndefined(GetStr(payload, "doi")))
  \/ Truthy(TrimOrUndefined(GetStr(payload, "pmid")))

\* The place of an outcome when nothing was fetched.
NotFetched == {[kind |-> "none", record |-> EmptyObject]}

NextAdd ==
  \/ \E args \in AddCommandLines :
       \E fetched \in (IF CliFetches(args) THEN FetchOutcomes ELSE NotFetched) :
         CliAdd(args, fetched)
  \/ \E payload \in AddPayloads :
       \E fetched \in (IF PostFetches(payload) THEN FetchOutcomes ELSE NotFetched) :
         PostAdd(payload, fetched)

SpecAdd == InitAdd /\ [][NextAdd]_vars

\* --------------------------------------------- concurrent POST requests
\* The route is an async function: a request runs to its next await, and
\* between two awaits of one request another request may run.  The awaits are
\* fetchPaperByIdentifier, loadRecords (readFile) and the two writeFile calls.

\* The number of requests in flight together.
MaxRequests == 2

PostPayloads ==
  {EmptyObject, [doi |-> "10.1/a"], [pmid |-> "444", dryRun |-> "true"]}

\* What the lookups of the requests come to.
PostOutcomes ==
  {[kind |-> "record", record |-> AddRecord("Older", 2023, "10.1/a", "111", Absent)],
   [kind |-> "record", record |-> AddRecord("Newer", 2024, "10.1/A", Absent, Absent)],
   [kind |-> "record", record |-> AddRecord("OHCA outcomes", 2023, Absent, "444", Absent)],
   [kind |-> "lookupError", record |-> EmptyObject]}

PostStores == {<<>>, <<AddRecord("Banana", 2023, "10.2/b", Absent, "PMC9")>>}

\* A request that has not run yet.
PostRequest(payload) ==
  [pc |-> "start", payload |-> payload, record |-> EmptyObject,
   updated |-> <<>>, response |-> "none"]

InitPost ==
  /\ postRaw \in PostStores
  /\ postNormalized = normalizeRecords(postRaw)
  /\ posts \in [1..MaxRequests -> {PostRequest(payload) : payload \in PostPayloads}]
  /\ DedupIdle
  /\ MergeIdle
  /\ ResolveIdle
  /\ NormIdle
  /\ CountryIdle
  /\ SearchIdle
  /\ TripIdle
  /\ BrowseIdle
  /\ BatchIdle
  /\ AddIdle

PostOthersUnchanged ==
  UNCHANGED <<dedupVars, mergeVars, resolveVars, normVars, countryVars, searchVars,
              tripVars, browseVars, batchVars, addVars>>

\* The request ends with a response.
Responds(r, response) ==
  posts' = [posts EXCEPT ![r].pc = "done", ![r].response = response]

\* From the start of the handler to await fetchPaperByIdentifier: a payload
\* without doi and pmid is answered 400.
PostBegin(r) ==
  /\ posts[r].pc = "start"
  /\ IF PostFetches(posts[r].payload)
     THEN posts' = [posts EXCEPT ![r].pc = "fetching"]
     ELSE Responds(r, "400")
  /\ UNCHANGED <<postRaw, postNormalized>>
  /\ PostOthersUnchanged

\* await fetchPaperByIdentifier resumes, with a record or a PaperLookupError;
\* with a record the handler goes on to await loadRecords.
PostFetched(r, fetched) ==
  /\ posts[r].pc = "fetching"
  /\ IF fetched.kind = "record"
     THEN posts' = [posts EXCEPT ![r].pc = "reading", ![r].record = fetched.record]
     ELSE Responds(r, "422")
  /\ UNCHANGED <<postRaw, postNormalized>>
  /\ PostOthersUnchanged

\* await loadRecords resumes with the raw store as it is now; the handler
\* answers a duplicate and a dry run, and otherwise sorts the updated store
\* and goes on to await the write of the raw store.
PostRead(r) ==
  /\ posts[r].pc = "reading"
  /\ \E existing \in {postRaw} :
       IF Truthy(findDuplicateId(existing, posts[r].record)) THEN Responds(r, "409")
       ELSE IF GetStr(posts[r].payload, "dryRun") = "true"
         THEN Responds(r, "200 persisted false")
       ELSE posts' = [posts EXCEPT
                        ![r].pc = "writing raw",
                        ![r].updated = sortRecords(Append(existing, posts[r].record))]
  /\ UNCHANGED <<postRaw, postNormalized>>
  /\ PostOthersUnchanged

\* The write of the raw store is done: the file holds the updated store of
\* this request.  The handler normalizes it and awaits the second write.
PostWriteRaw(r) ==
  /\ posts[r].pc = "writing raw"
  /\ postRaw' = posts[r].updated
  /\ posts' = [posts EXCEPT ![r].pc = "writing normalized"]
  /\ UNCHANGED postNormalized
  /\ PostOthersUnchanged

\* The write of the normalized store is done, and the request is answered
\* 200 with persisted true.
PostWriteNormalized(r) ==
  /\ posts[r].pc = "writing normalized"
  /\ postNormalized' = normalizeRecords(posts[r].updated)
  /\ Responds(r, "200 persisted true")
  /\ UNCHANGED postRaw
  /\ PostOthersUnchanged

NextPost ==
  \/ \E r \in 1..MaxRequests : PostBegin(r)
  \/ \E r \in 1..MaxRequests : \E fetched \in PostOutcomes : PostFetched(r, fetched)
  \/ \E r \in 1..MaxRequests : PostRead(r)
  \/ \E r \in 1..MaxRequests : PostWriteRaw(r)
  \/ \E r \in 1..MaxRequests : PostWriteNormalized(r)

SpecPost == InitPost /\ [][NextPost]_vars

\* ------------------------------------------------- claims on the resolver
HasCall(endpoint) == \E i \in 1..Len(calls) : calls[i].ep = endpoint

CallCount(endpoint) == Cardinality({i \in 1..Len(calls) : calls[i].ep = endpoint})

\* The call is resolving a DOI whose registry record embeds a PMID.
EmbeddedPmid == crossref # EmptyObject /\ Truthy(crossref["pmid"])

\* C3: resolve dispatches by priority pmcid, pmid, doi.  With a pmcid the PMCID
\* path is taken whatever else is given: the first request is the link lookup
\* and the registry is never called.  With a pmid and no pmcid only the
\* biomedical record fetch is requested, also when a doi is given, and its
\* record is returned as it is.  With no identifier the call fails with a
\* LookupError before any request.
C3_DispatchPriority ==
  /\ Truthy(opts.pmcid) =>
       /\ \A i \in 1..Len(calls) : calls[i].ep \in {"elink", "efetch"}
       /\ Len(calls) >= 1 => calls[1] = [ep |-> "elink", arg |-> "PMC7"]
       /\ (rpc # "start" /\ Len(calls) = 0) => (rpc = "done" /\ outcome = "LookupError")
       /\ crossref = EmptyObject
  /\ (~Truthy(opts.pmcid) /\ Truthy(opts.pmid)) =>
       /\ \A i \in 1..Len(calls) : calls[i] = [ep |-> "efetch", arg |-> opts.pmid]
       /\ rpc # "start" => Len(calls) = 1
       /\ crossref = EmptyObject
       /\ outcome = "record" => (pubmed # EmptyObject /\ result = pubmed)
  /\ (~Truthy(opts.pmcid) /\ ~Truthy(opts.pmid) /\ ~Truthy(opts.doi)) =>
       /\ calls = <<>>
       /\ rpc \in {"start", "done"}
       /\ rpc = "done" => outcome = "LookupError"

\* A pmid given together with a doi and no pmcid: one record fetch, and its
\* record returned.
C3_Witness ==
  /\ opts = [doi |-> "10.1/A", pmid |-> "11", pmcid |-> ""]
  /\ rpc = "done"
  /\ outcome = "record"
  /\ calls = <<[ep |-> "efetch", arg |-> "11"]>>
  /\ result["pmid"] = "11"

\* C4: resolving by DOI with a PMID embedded in the registry record, the
\* registry is requested first and the biomedical record for that PMID second;
\* when that fetch succeeds the result is merge(biomedical, registry), and when
\* it fails with a LookupError the registry record alone is returned and the
\* call does not fail.
C4_EmbeddedPmidMerge ==
  (Dispatch(opts) = "doi" /\ EmbeddedPmid) =>
    /\ Len(calls) = 2
    /\ calls[1].ep = "crossref"
    /\ calls[2] = [ep |-> "efetch", arg |-> crossref["pmid"]]
    /\ rpc = "done" =>
         /\ pubmed # EmptyObject =>
              (outcome = "record" /\ result = mergeRecords(pubmed, crossref))
         /\ (pubmed = EmptyObject /\ raised = "") =>
              (outcome = "record" /\ result = crossref)

\* The embedded PMID's fetch answered with a non-success status and the
\* registry record was returned.
C4_Witness ==
  /\ Dispatch(opts) = "doi"
  /\ EmbeddedPmid
  /\ rpc = "done"
  /\ responses = <<"ok", "notok">>
  /\ outcome = "record"
  /\ result = crossref
  /\ pubmed = EmptyObject

\* C5: resolving by DOI when the registry record has no embedded PMID, the
\* resolver sends a term search with the term "<doi>[doi]" to the biomedical
\* provider, fetches the first id returned and returns the merge of the
\* biomedical record over the registry record.
C5_TermSearchFallback ==
  (Dispatch(opts) = "doi" /\ rpc = "done" /\ crossref # EmptyObject /\ ~EmbeddedPmid) =>
    /\ \E i \in 1..Len(calls) :
         calls[i] = [ep |-> "esearch", arg |-> crossref["doi"] \o "[doi]"]
    /\ HasCall("efetch")

\* C6: an exception other than a LookupError thrown by a provider call leaves
\* resolve unchanged on every path: the call rejects with that very exception,
\* no record is returned, and it is not turned into a LookupError.
C6_TransportErrorPropagates ==
  raised # "" =>
    /\ rpc = "done"
    /\ outcome = "Error"
    /\ thrown = raised
    /\ result = EmptyObject

\* The fetch of the embedded PMID of a DOI resolution was rejected, and the
\* call rejected with it.
C6_Witness ==
  /\ Dispatch(opts) = "doi"
  /\ EmbeddedPmid
  /\ responses = <<"ok", "rejected">>
  /\ raised = "TypeError: fetch failed"
  /\ outcome = "Error"

\* C7: no retries: within one resolve call each provider endpoint is
\* requested at most once, whatever the providers answer.
C7_NoRetries ==
  \A endpoint \in {"crossref", "efetch", "elink", "esearch"} : CallCount(endpoint) <= 1

\* A PMCID resolution whose record fetch answered with a non-success status:
\* the call failed after exactly one request to each endpoint.
C7_Witness ==
  /\ rpc = "done"
  /\ responses = <<"ok", "notok">>
  /\ outcome = "LookupError"
  /\ Len(calls) = 2
  /\ calls[1].ep = "elink" /\ calls[2].ep = "efetch"

\* The link-set databases of a payload in document order.
RECURSIVE FlatDbs(_, _)
FlatDbs(payload, i) ==
  IF i > Len(payload) THEN <<>> ELSE payload[i] \o FlatDbs(payload, i + 1)

LinkDbs == FlatDbs(linkPayload, 1)

\* A database whose dbto names PubMed, in any case.
IsPubMedDb(db) == db.dbto # Undefined /\ ToLowerCase(db.dbto) = "pubmed"

PubMedDbs == {i \in 1..Len(LinkDbs) : IsPubMedDb(LinkDbs[i])}

FirstPubMedDb == LinkDbs[CHOOSE i \in PubMedDbs : \A j \in PubMedDbs : i <= j]

\* A database the lookup takes a PMID from: its dbto names PubMed or is not
\* given, and its first link is not blank.
IsUsableDb(db) ==
  /\ db.dbto \in {Undefined, ""} \/ ToLowerCase(db.dbto) = "pubmed"
  /\ db.first \notin {"", " "}

UsableDbs == {i \in 1..Len(LinkDbs) : IsUsableDb(LinkDbs[i])}

FirstUsableDb == LinkDbs[CHOOSE i \in UsableDbs : \A j \in UsableDbs : i <= j]

LinkLookupAnswered == Len(responses) >= 1 /\ responses[1] = "ok"

LinkLookupNotOk == Len(responses) >= 1 /\ responses[1] = "notok"

\* C8 as stated: in a PMCID resolution the record fetch is issued only after
\* the link lookup returned a PMID, which is the first link of the first
\* PubMed-database link set of the response; when the response holds no
\* PubMed-database link, or the status is not a success, resolve fails with a
\* LookupError and no record fetch is issued.
C8_FirstPubMedLinkSet ==
  Dispatch(opts) = "pmcid" =>
    /\ HasCall("efetch") =>
         /\ calls[1].ep = "elink"
         /\ LinkLookupAnswered
         /\ PubMedDbs # {}
         /\ calls[2] = [ep |-> "efetch", arg |-> FirstPubMedDb.first]
    /\ (LinkLookupNotOk \/ (LinkLookupAnswered /\ PubMedDbs = {})) =>
         (rpc = "done" /\ outcome = "LookupError" /\ ~HasCall("efetch"))

\* C8 as amended: the PMID is the first link of the first link-set database,
\* in document order, whose dbto names PubMed or is not given and whose first
\* link is not blank; the record fetch is issued for it, after the link lookup;
\* when there is no such database, or the status is not a success, resolve
\* fails with a LookupError and no record fetch is issued.
C8_FirstUsableLinkSet ==
  Dispatch(opts) = "pmcid" =>
    /\ HasCall("efetch") =>
         /\ calls[1].ep = "elink"
         /\ LinkLookupAnswered
         /\ UsableDbs # {}
         /\ calls[2] = [ep |-> "efetch", arg |-> FirstUsableDb.first]
    /\ (LinkLookupAnswered /\ UsableDbs # {}) => HasCall("efetch")
    /\ (LinkLookupNotOk \/ (LinkLookupAnswered /\ UsableDbs = {})) =>
         (rpc = "done" /\ outcome = "LookupError" /\ ~HasCall("efetch"))

\* The first PubMed database of the response holds no link, a later database
\* without dbto holds one, and the record fetch is issued for it.
C8_Witness ==
  /\ Dispatch(opts) = "pmcid"
  /\ linkPayload = << <<[dbto |-> "pubmed", first |-> ""]>>,
                      <<[dbto |-> Undefined, first |-> "44"]>> >>
  /\ Len(calls) = 2
  /\ calls[2] = [ep |-> "efetch", arg |-> "44"]

\* The call resolved a DOI and ended in mergeRecords(pubmed, crossref).
EndedInMerge ==
  /\ Dispatch(opts) = "doi"
  /\ rpc = "done"
  /\ outcome = "record"
  /\ crossref # EmptyObject
  /\ pubmed # EmptyObject

\* C11: in a merged record the registry record fills every gap of the
\* biomedical record: each of doi, pmcid, date and country that the biomedical
\* record does not supply and the registry record supplies carries the
\* registry's value, and the doi of a DOI resolution that ended in a merge is
\* non-empty.
C11_RegistryFillsGaps ==
  EndedInMerge =>
    /\ \A key \in {"doi", "pmcid", "date", "country"} :
         (~Truthy(GetStr(pubmed, key)) /\ Truthy(GetStr(crossref, key)))
           => GetStr(result, key) = crossref[key]
    /\ Truthy(GetStr(result, "doi"))

\* A URL as the providers' records write them.
IsUrl(v) == Truthy(v) /\ Len(v) > 8 /\ SubSeq(v, 1, 8) = "https://"

\* C12: every record resolve returns, registry only, biomedical only or
\* merged, has a links mapping whose present keys are among doi, pubmed and
\* pmc and each hold a non-empty URL: no key is present with an empty string
\* or with undefined.
C12_LinksHoldUrls ==
  outcome = "record" =>
    /\ "links" \in DOMAIN result
    /\ result["links"] # UndefinedObject
    /\ \A key \in DOMAIN result["links"] :
         key \in LinkKeys /\ IsUrl(result["links"][key])

\* A merge in which the biomedical record supplies no doi link and the
\* registry record does: the merged links hold the registry's URL and the
\* biomedical record's pubmed URL, and no pmc key.
C12_Witness ==
  /\ EndedInMerge
  /\ "doi" \notin DOMAIN pubmed["links"]
  /\ DOMAIN result["links"] = {"doi", "pubmed"}
  /\ result["links"]["doi"] = "https://doi.org/10.1/a"

\* A registry payload without a title: no message, no title entry, or a blank
\* first title.
CrossrefNoTitle(payload) ==
  payload = UndefinedObject \/ Len(payload.title) = 0 \/ Trim(payload.title[1]) = ""

\* A date-parts array that gives no year.
NoYearParts(parts) == parts = UndefinedParts \/ Len(parts) = 0 \/ parts[1] = 0

\* A registry payload none of whose dates gives a year.
CrossrefNoYear(payload) ==
  \/ payload = UndefinedObject
  \/ /\ NoYearParts(payload.publishedPrint)
     /\ NoYearParts(payload.publishedOnline)
     /\ NoYearParts(payload.published)
     /\ NoYearParts(payload.issued)

\* A biomedical body without an article title.
PubMedNoTitle(body) == ~body.entry \/ ~body.citation \/ Trim(body.ArticleTitle) = ""

\* A biomedical body none of whose date nodes gives a year.
PubMedNoYear(body) ==
  \/ ~body.entry
  \/ ~body.citation
  \/ /\ \A i \in 1..Len(body.ArticleDate) : ~Truthy(body.ArticleDate[i].Year)
     /\ ~Truthy(body.PubDate.Year)
     /\ body.PubDate.MedlineDate \notin {"2022 Jul-Aug"}

\* C13: every record resolve returns has a populated year and a non-empty
\* title; when the payload that would supply the returned record has no title
\* or no usable year, the call fails with a LookupError instead of returning
\* a record (inside a DOI resolution the biomedical record is then left out
\* and the registry record, which has both, is returned).
C13_YearAndTitlePopulated ==
  [][/\ outcome' = "record" =>
          /\ GetStr(result', "title") \notin {Undefined, "", " "}
          /\ "year" \in DOMAIN result'
          /\ result'["year"] > 0
     /\ \A payload \in CrossrefPayloads :
          ((CrossrefNoTitle(payload) \/ CrossrefNoYear(payload)) /\ CrossrefAnswers(payload))
            => (rpc' = "done" /\ outcome' = "LookupError")
     /\ \A body \in PubMedBodies :
          ((PubMedNoTitle(body) \/ PubMedNoYear(body)) /\ EfetchAnswers(body))
            => /\ rpc' = "done"
               /\ IF crossref = EmptyObject
                  THEN outcome' = "LookupError"
                  ELSE outcome' = "record" /\ result' = crossref
    ]_vars

\* A PMID resolution whose article body gives no year in any of its date
\* nodes: the call failed with the LookupError of the missing year.
C13_Witness ==
  /\ Dispatch(opts) = "pmid"
  /\ rpc = "done"
  /\ responses = <<"ok">>
  /\ outcome = "LookupError"
  /\ thrown = "PubMed record is missing a publication year."

\* ------------------------------------------------ claims on the normalizer
\* C14: after deduplication no two records have the same id.
C14_UniqueIds ==
  dedupDone =>
    \A i, j \in 1..Len(deduped) : i # j => deduped[i].id # deduped[j].id

\* The records deduplicate keeps of the corpus.
KeptOfCorpus == deduplicate(corpus)

\* The ways to pair each kept record with an output record of its own.
Pairings ==
  {f \in [1..Len(KeptOfCorpus) -> 1..Len(normalized)] :
     \A i, j \in 1..Len(KeptOfCorpus) : i # j => f[i] # f[j]}

\* The output record is the normalized form of the input record: it holds
\* every key of the input with the input's value, the country and the fields
\* normalize fills in apart.
NormalizedFrom(input, output) ==
  /\ DOMAIN input \subseteq DOMAIN output
  /\ \A key \in DOMAIN input \ {"country", "corrCountryCode", "corrCountryName",
                                "domains", "setting", "design"} :
       output[key] = input[key]
  /\ {"normalizedAuthors", "isAbstractTruncated", "domains", "setting"} \subseteq DOMAIN output

\* The titles of the model in ascending alphabetical (locale-aware) order.
TitlesAscending ==
  <<"apple", "Banana", "Cardiac arrest study", "Newer", "OHCA outcomes", "Older">>

TitlePlace(title) == CHOOSE k \in 1..Len(TitlesAscending) : TitlesAscending[k] = title

\* C15: the output of normalize is sorted by year descending, ties broken by
\* title ascending in the locale-aware order: of two adjacent output records
\* a before b, a.year > b.year, or a.year = b.year and a.title <= b.title; and
\* the output holds exactly one normalized record for each record kept by
\* deduplication.
C15_SortedByYearThenTitle ==
  normDone =>
    /\ \A k \in 1..(Len(normalized) - 1) :
         LET a == normalized[k]
             b == normalized[k + 1]
         IN \/ a["year"] > b["year"]
            \/ a["year"] = b["year"] /\ TitlePlace(a["title"]) <= TitlePlace(b["title"])
    /\ Len(normalized) = Len(KeptOfCorpus)
    /\ \E f \in Pairings :
         \A k \in 1..Len(KeptOfCorpus) : NormalizedFrom(KeptOfCorpus[k], normalized[f[k]])

\* Two records of the same year handed over with the later title first: the
\* output holds both, the earlier title first.
C15_Witness ==
  /\ normDone
  /\ Len(corpus) = 2
  /\ corpus[1]["year"] = 2024 /\ corpus[1]["title"] = "Banana"
  /\ corpus[2]["year"] = 2024 /\ corpus[2]["title"] = "apple"
  /\ Len(normalized) = 2
  /\ normalized[1]["title"] = "apple" /\ normalized[2]["title"] = "Banana"

\* The entries of the correction table the text matches, by position.
MatchingEntries(text) ==
  IF ~Truthy(text) THEN {}
  ELSE {k \in 1..Len(COUNTRY_CORRECTIONS) : CorrectionMatches(COUNTRY_CORRECTIONS[k], text)}

FirstMatchingEntry(text) ==
  COUNTRY_CORRECTIONS[CHOOSE k \in MatchingEntries(text) : \A j \in MatchingEntries(text) : k <= j]

\* C17 as stated, for one input record and its output record.
CountryRuleAsStated(input, output) ==
  LET sanitized == sanitizeCountry(GetStr(input, "country"))
  IN IF MatchingEntries(sanitized) # {}
     THEN /\ GetStr(output, "corrCountryCode") = FirstMatchingEntry(sanitized).code
          /\ GetStr(output, "corrCountryName") = FirstMatchingEntry(sanitized).name
          /\ GetStr(output, "country") = sanitized
     ELSE /\ GetStr(output, "country") = sanitized
          /\ CorrOf(output) = CorrOf(input)

\* C17 as stated: in normalize, when the sanitized country string of a record
\* matches an entry of the correction table, corrCountryCode and
\* corrCountryName are set from that entry and the record's country becomes
\* the sanitized string; when no entry matches, country becomes the sanitized
\* string and no corrected-country field is set or changed.
C17_CountryBecomesSanitized ==
  normDone =>
    \E f \in Pairings :
      \A k \in 1..Len(KeptOfCorpus) :
        /\ NormalizedFrom(KeptOfCorpus[k], normalized[f[k]])
        /\ CountryRuleAsStated(KeptOfCorpus[k], normalized[f[k]])

\* C17 as amended, for one input record and its output record.
CountryRuleAmended(input, output) ==
  LET given == GetStr(input, "country")
      sanitized == sanitizeCountry(given)
      kept == IF sanitized # Undefined THEN sanitized ELSE given
  IN IF MatchingEntries(kept) # {}
     THEN /\ GetStr(output, "corrCountryCode") = FirstMatchingEntry(kept).code
          /\ GetStr(output, "corrCountryName") = FirstMatchingEntry(kept).name
          /\ GetStr(output, "country") = FirstMatchingEntry(kept).name
     ELSE /\ GetStr(output, "country") = kept
          /\ CorrOf(output) = CorrOf(input)

\* C17 as amended: when the sanitized country string of a record matches an
\* entry of the correction table, corrCountryCode and corrCountryName are set
\* from the first such entry and the record's country becomes that entry's
\* country name; when no entry matches, country becomes the sanitized string,
\* or stays as given when sanitizing leaves nothing of it, and no
\* corrected-country field is set or changed.
C17_CountryBecomesCorrectedName ==
  normDone =>
    \E f \in Pairings :
      \A k \in 1..Len(KeptOfCorpus) :
        /\ NormalizedFrom(KeptOfCorpus[k], normalized[f[k]])
        /\ CountryRuleAmended(KeptOfCorpus[k], normalized[f[k]])

\* A record whose country sanitizes to "MI", which the table corrects, next
\* to one whose country sanitizes to "Denmark", which it does not: the first
\* comes out as United States with the code US, the second as Denmark with
\* the corrected country it carried.
C17_Witness ==
  /\ normDone
  /\ Len(corpus) = 2
  /\ GetStr(corpus[1], "country") = "MI."
  /\ GetStr(corpus[2], "country") = "Denmark. E-mail: a@b.dk"
  /\ GetStr(corpus[2], "corrCountryCode") = "DK"
  /\ Len(normalized) = 2
  /\ \E k \in 1..2 :
       /\ normalized[k]["country"] = "United States"
       /\ normalized[k]["corrCountryCode"] = "US"
  /\ \E k \in 1..2 :
       /\ normalized[k]["country"] = "Denmark"
       /\ normalized[k]["corrCountryCode"] = "DK"

\* The name C18 states for a name, the name taken without the white space
\* around it: everything after the first comma counts as the given part.
StatedName(name) ==
  LET cleaned == Trim(name)
  IN IF cleaned = "" THEN name
     ELSE IF Includes(cleaned, ",")
       THEN LET first == FirstIndex(cleaned, {","}, 1)
                surname == SubSeq(cleaned, 1, first - 1)
                given == SubSeq(cleaned, first + 1, Len(cleaned))
            IN Trim(Trim(surname) \o " "
                    \o Initials(Tokens(given, Whitespace \cup {"-"}, 1), 1))
     ELSE LET parts == Tokens(cleaned, Whitespace, 1)
          IN IF Len(parts) = 1 THEN cleaned
             ELSE Trim(parts[Len(parts)] \o " "
                       \o Initials(SubSeq(parts, 1, Len(parts) - 1), 1))

\* C18: for every name containing a comma, normalizeName returns the text
\* before the first comma, a space, and the uppercased first letters of every
\* hyphen- or space-delimited token of everything after the first comma; for a
\* name without a comma and with at least two tokens the last token, a space
\* and the uppercased first letters of the preceding tokens; a single-token
\* name is returned unchanged.  Checked on the author names normalize rewrites.
C18_NameInitials ==
  normDone =>
    \A k \in 1..Len(normalized) :
      LET authors == GetList(normalized[k], "authors")
          names == GetList(normalized[k], "normalizedAuthors")
      IN /\ Len(names) = Len(authors)
         /\ \A i \in 1..Len(authors) : names[i] = StatedName(authors[i])

\* C16: once a record carries corrCountryCode/corrCountryName no later
\* operation overwrites them: after any sequence of enrichCountryForPaper and
\* normalize applications the record's corrCountryCode and corrCountryName
\* equal the values first set.
C16_CorrectedCountryKept ==
  firstCorr # NoCorrection => CorrOf(stored) = firstCorr

\* ------------------------------------------------- claims on the search
\* How often a value stands in a list.
Occurrences(list, value) == Cardinality({k \in 1..Len(list) : list[k] = value})

\* The values a record offers to a facet.
FacetValues(paper, field) ==
  IF field \notin DOMAIN paper THEN {}
  ELSE IF field = "domains" THEN Members(paper[field])
  ELSE {paper[field]} \ {""}

\* The facet is unselected or a selected value is among the record's.
FacetPasses(paper, selected, field) ==
  Len(selected) = 0 \/ Members(selected) \cap FacetValues(paper, field) # {}

\* The texts of a record a quick filter is matched against.
QuickTexts(paper) ==
  {paper["title"], paper["abstract"]}
    \cup (IF "keywords" \in DOMAIN paper THEN Members(paper["keywords"]) ELSE {})
    \cup (IF "domains" \in DOMAIN paper THEN Members(paper["domains"]) ELSE {})

\* No predefined quick filter is active, or one of its terms stands in one of
\* the record's texts, letter case apart.
QuickPasses(paper, state) ==
  GetStr(state, "quickFilter") \in DOMAIN QUICK_FILTERS =>
    \E term \in Members(QUICK_FILTERS[state["quickFilter"]]) :
      \E text \in QuickTexts(paper) : Includes(ToLowerCase(text), term)

\* The record passes the facet filter of the state.
PassesFilter(paper, state) ==
  /\ state["years"][1] <= paper["year"]
  /\ paper["year"] <= state["years"][2]
  /\ FacetPasses(paper, state["domains"], "domains")
  /\ FacetPasses(paper, state["settings"], "setting")
  /\ FacetPasses(paper, state["designs"], "design")
  /\ FacetPasses(paper, state["countries"], "country")
  /\ FacetPasses(paper, state["journals"], "journal")
  /\ QuickPasses(paper, state)

\* C19: every record returned by search passes the facet filter (year within
\* the inclusive range, each of the five facets either unselected or
\* intersecting the record's field, and the active quick filter matched), and
\* when the query is empty the returned records are exactly the corpus records
\* that pass the filter, each once.
C19_ResultsPassFilter ==
  searchDone =>
    /\ \A k \in 1..Len(found) :
         /\ PassesFilter(found[k], searchState)
         /\ Occurrences(found, found[k]) <= Occurrences(allPapers, found[k])
    /\ TrimmedQuery(searchState) = "" =>
         \A i \in 1..Len(allPapers) :
           Occurrences(found, allPapers[i]) =
             IF PassesFilter(allPapers[i], searchState)
             THEN Occurrences(allPapers, allPapers[i]) ELSE 0

\* A search without a query and with a domain selected over a corpus of two
\* records of which one holds the domain: that one is returned, alone.
C19_Witness ==
  /\ searchDone
  /\ TrimmedQuery(searchState) = ""
  /\ Len(searchState["domains"]) > 0
  /\ Len(allPapers) = 2
  /\ PassesFilter(allPapers[2], searchState)
  /\ ~PassesFilter(allPapers[1], searchState)
  /\ found = <<allPapers[2]>>

\* a stands rightly before b by year descending, then title ascending.
YearThenTitleOrdered(a, b) ==
  \/ a["year"] > b["year"]
  \/ a["year"] = b["year"] /\ TitlePlace(a["title"]) <= TitlePlace(b["title"])

\* C20: the result of search is always ordered: with a non-empty query by
\* fuzzy score ascending, ties by year descending, further ties by title
\* ascending; with an empty query by year descending then title ascending.
\* Two hits with identical score are returned later-year first, and with
\* equal years earlier-title first.
C20_ResultsOrdered ==
  searchDone =>
    IF TrimmedQuery(searchState) # ""
    THEN /\ Len(found) = Len(ranked)
         /\ \A k \in 1..Len(ranked) : found[k] = ranked[k].item
         /\ \A k \in 1..(Len(ranked) - 1) :
              \/ ranked[k].score < ranked[k + 1].score
              \/ /\ ranked[k].score = ranked[k + 1].score
                 /\ YearThenTitleOrdered(ranked[k].item, ranked[k + 1].item)
    ELSE \A k \in 1..(Len(found) - 1) : YearThenTitleOrdered(found[k], found[k + 1])

\* A query with two good hits of the same score, the later record standing
\* second in the corpus: it is returned first.
C20_Witness ==
  /\ searchDone
  /\ TrimmedQuery(searchState) # ""
  /\ Len(ranked) = 2
  /\ ranked[1].score = ranked[2].score
  /\ ranked[1].refIndex = 2
  /\ ranked[1].item["year"] = 2024
  /\ ranked[2].item["year"] = 2023
  /\ found = <<allPapers[2], allPapers[1]>>

\* C21: with a non-empty query, search never returns an empty list while some
\* filtered candidate is an acceptable fuzzy match: if the plain fuzzy matcher
\* run on the query as given yields at least one hit that passes the
\* match-quality post-filter, the result is non-empty, whatever the strict
\* query returned.
C21_NeverSilentlyEmpty ==
  (/\ searchDone
   /\ TrimmedQuery(searchState) # ""
   /\ \E k \in 1..Len(plainHits) : isGoodMatch(plainHits[k]))
    => Len(found) > 0

\* ---------------------------------- further claims on the deduplication
\* The two records share a non-empty DOI or a non-empty PMID, letter case
\* apart.
ShareIdentifier(a, b) == ShareDoi(a, b) \/ SharePmid(a, b)

FacetKeys == {"domains", "settings", "designs", "countries", "journals"}

NoEmptyFacetList(state) == \A key \in FacetKeys : Len(state[key]) > 0

NoEmptyFacetValue(state) ==
  \A key \in FacetKeys : \A i \in 1..Len(state[key]) : state[key][i] # ""

YearsAreIntegers(state) ==
  \A i \in 1..2 : state["years"][i] \notin {NotANumber, UndefinedNumber}

\* C22 as stated: a state with a non-empty query and no empty facet list comes
\* back from parseStateFromUrl(serializeStateToUrl(state, url), defaults)
\* equal in every field, for every url and every defaults.
C22_RoundTripAsStated ==
  (tripDone /\ tripIn.state["query"] # "" /\ NoEmptyFacetList(tripIn.state))
    => tripOut = tripIn.state

\* C22 amended: the state comes back equal in every field when, besides the
\* non-empty query and the non-empty facet lists, no facet list holds an empty
\* string, both years are integers, and the quick filter is a non-empty name
\* or is unset in the state and in the defaults alike.
C22_RoundTripWithQuickFilter ==
  (/\ tripDone
   /\ tripIn.state["query"] # ""
   /\ NoEmptyFacetList(tripIn.state)
   /\ NoEmptyFacetValue(tripIn.state)
   /\ YearsAreIntegers(tripIn.state)
   /\ \/ Truthy(tripIn.state["quickFilter"])
      \/ /\ tripIn.state["quickFilter"] = Undefined
         /\ tripIn.defaults["quickFilter"] = Undefined)
    => tripOut = tripIn.state

\* A state without quick filter went onto a URL that held stale search
\* parameters and came back as it was.
C22_Witness ==
  /\ tripDone
  /\ tripIn.state = [TripBase EXCEPT !.quickFilter = Undefined]
  /\ ParamsGet(tripIn.url, "quick") = "Cognitive"
  /\ tripIn.defaults = SearchDefault
  /\ tripOut = tripIn.state
  /\ ParamsGet(tripUrl, "quick") = Null

\* The URL parameter of each facet list.
FacetParam(key) ==
  CASE key = "domains" -> "domain"
    [] key = "settings" -> "setting"
    [] key = "designs" -> "design"
    [] key = "countries" -> "country"
    [] key = "journals" -> "journal"

\* An empty query, an empty facet list and an unset quick filter leave no
\* parameter of their name in the URL.
EmptySerializesToAbsent ==
  tripDone =>
    /\ tripIn.state["query"] = "" => ParamsGet(tripUrl, "q") = Null
    /\ \A key \in FacetKeys :
         Len(tripIn.state[key]) = 0 => Len(ParamsGetAll(tripUrl, FacetParam(key))) = 0
    /\ tripIn.state["quickFilter"] = Undefined => ParamsGet(tripUrl, "quick") = Null

\* A field whose parameter the URL does not hold is parsed as the default.
AbsentParsesToDefault ==
  tripDone =>
    /\ ParamsGet(tripUrl, "q") = Null => tripOut["query"] = tripIn.defaults["query"]
    /\ \A key \in FacetKeys :
         Len(ParamsGetAll(tripUrl, FacetParam(key))) = 0
           => tripOut[key] = tripIn.defaults[key]
    /\ ParamsGet(tripUrl, "quick") = Null
         => tripOut["quickFilter"] = tripIn.defaults["quickFilter"]

\* The defaults are the empty state: no query, no facet value, no quick filter.
IsEmptyState(state) ==
  /\ state["query"] = ""
  /\ \A key \in FacetKeys : Len(state[key]) = 0
  /\ state["quickFilter"] = Undefined

\* C23 as stated: empty fields serialize to absent parameters, absent
\* parameters parse to the defaults, and with the empty state as defaults the
\* state parsed after serializing equals the original state.
C23_AbsentAndDefaultAsStated ==
  /\ EmptySerializesToAbsent
  /\ AbsentParsesToDefault
  /\ (tripDone /\ IsEmptyState(tripIn.defaults)) => tripOut = tripIn.state

\* C23 amended: empty fields serialize to absent parameters, absent parameters
\* parse to the defaults, and with the empty state as defaults the state
\* parsed after serializing equals the original state when its quick filter
\* is not the empty string, no facet list holds an empty string and both
\* years are integers.
C23_AbsentAndDefault ==
  /\ EmptySerializesToAbsent
  /\ AbsentParsesToDefault
  /\ (/\ tripDone
      /\ IsEmptyState(tripIn.defaults)
      /\ tripIn.state["quickFilter"] # ""
      /\ NoEmptyFacetValue(tripIn.state)
      /\ YearsAreIntegers(tripIn.state))
       => tripOut = tripIn.state

\* The empty state went onto a URL holding stale search parameters, left none
\* of them, and came back as the empty state.
C23_Witness ==
  /\ tripDone
  /\ IsEmptyState(tripIn.state)
  /\ IsEmptyState(tripIn.defaults)
  /\ ParamsGet(tripIn.url, "q") = "old"
  /\ ParamsGet(tripUrl, "q") = Null
  /\ Len(ParamsGetAll(tripUrl, "domain")) = 0
  /\ tripOut = tripIn.state

\* ------------------------------------------- claims on the browse page
SearchParamNames ==
  {"q", "years", "domain", "setting", "design", "country", "journal", "quick"}

OtherParams(params) == SelectSeq(params, LAMBDA pair : pair.k \notin SearchParamNames)

\* C29: after every serialization onto the URL of the page, the q, years,
\* domain, setting, design, country, journal and quick parameters are exactly
\* those of the state serialized last, the same as serializing that state onto
\* a URL without parameters, and every other parameter is as the page was
\* opened with.
C29_NoStaleSearchParams ==
  browseMounted =>
    LET params == ParseParams(browseHref)
        fresh == serializeStateToUrl(browseState, <<>>)
    IN /\ \A name \in SearchParamNames :
            ParamsGetAll(params, name) = ParamsGetAll(fresh, name)
       /\ OtherParams(params) = OtherParams(ParseParams(browseStart))

\* A page opened with doubled and stale search parameters around a foreign one
\* was reset and changed again: the journal and the second q are gone and the
\* foreign parameter is still there.
C29_Witness ==
  /\ browseMounted
  /\ browseChanges >= 2
  /\ ParamsGetAll(ParseParams(browseStart), "q") = <<"old", "older">>
  /\ ParamsGet(ParseParams(browseStart), "journal") = "Z"
  /\ ParamsGetAll(ParseParams(browseHref), "q") = <<"cardiac arrest">>
  /\ Len(ParamsGetAll(ParseParams(browseHref), "journal")) = 0
  /\ ParamsGet(ParseParams(browseHref), "page") = "2"

\* C30: after every year-slider change the start year is at most the end
\* year, the changed bound is the new value, and no field other than years
\* has changed.
C30_YearChangeKeepsOrder ==
  (browseMounted /\ "handler" \in DOMAIN browseLast
     /\ browseLast["handler"] = "handleYearChange")
    => /\ JsLessOrEqual(browseState["years"][1], browseState["years"][2])
       /\ browseState["years"][browseLast["index"] + 1] = browseLast["value"]
       /\ \A key \in DOMAIN browseState \ {"years"} :
            browseState[key] = browseLast["prior"][key]

\* ----------------------------- claims on the batch country enrichment
\* C24: a failed lookup for one record never aborts the batch: main is not
\* ended by a throw, the record of a failed lookup is held, and written, as
\* it was loaded, the calls made are those of the targets, one each and in
\* their order, and the loop is left once the last target has been called.
C24_FailedLookupNeverAborts ==
  LET targets == BatchTargets(batchRecords)
  IN /\ batchPc # "aborted"
     /\ \A k \in 1..Len(batchCalls) :
          k <= Len(targets) /\ batchCalls[k].id = targets[k]["id"]
     /\ batchPc = "loop" => Len(batchCalls) < Len(targets)
     /\ (batchPc = "done" /\ batchRecords # <<>>) => Len(batchCalls) = Len(targets)
     /\ \A k \in 1..Len(batchCalls) :
          (k <= Len(targets) /\ batchCalls[k].failed) =>
            /\ batchCalls[k].id \in DOMAIN batchEnriched
            /\ batchEnriched[batchCalls[k].id] = targets[k]
            /\ (batchPc = "done" /\ ~batchDryRun) =>
                 \E j \in 1..Len(batchRaw) :
                   /\ batchRecords[j] = targets[k]
                   /\ batchRaw[j] = targets[k]

\* The lookup of the first target failed, the second target was enriched
\* after it, and both stores were written.
C24_Witness ==
  /\ batchPc = "done"
  /\ ~batchDryRun
  /\ Len(batchCalls) = 2
  /\ batchCalls[1].failed
  /\ ~batchCalls[2].failed
  /\ batchRaw[1] = batchRecords[1]
  /\ GetStr(batchRaw[2], "corrCountryName") = "Sweden"
  /\ GetStr(batchRecords[2], "corrCountryName") = Undefined

\* ----------------------------------------------- claims on adding a paper
\* The last operation was an accepted add: it wrote the stores.
LastAccepted == addCount > 0 /\ addLast.outcome \in {"added", "200 persisted true"}

\* The last operation was rejected as a duplicate.
LastRejected == addCount > 0 /\ addLast.outcome \in {"duplicate", "409"}

\* Both stores are as the last operation found them.
StoresAsBefore ==
  /\ addRaw = addLast.rawBefore
  /\ addNormalized = addLast.normalizedBefore

\* C25: an add-paper operation run in dry-run or preview mode never modifies
\* the raw store or the normalized store, whatever the identifier and whatever
\* the providers return.  The mode is asked for on the command line with
\* --dry-run (or --print) or --preview true, and in the request body with
\* dryRun.
C25_DryRunWritesNothing ==
  (addCount > 0 /\ addLast.dry = "true") => StoresAsBefore

\* The part of C25 that holds: a request with dryRun set never modifies a
\* store.
DryRunRequestWritesNothing ==
  (addCount > 0 /\ addLast.dry = "true" /\ addLast.channel = "post") => StoresAsBefore

\* C27: sequential add operations, by command line or by request, never leave
\* two records of the raw store sharing an id, a DOI or a PMID, case aside; an
\* add rejected as a duplicate leaves both stores as they were; an accepted
\* add leaves the raw store one record longer, every earlier record still in
\* it, and the normalized store derived from it.
C27_NoDuplicateStored ==
  /\ NoSharedKeys(addRaw)
  /\ LastRejected => StoresAsBefore
  /\ LastAccepted =>
       /\ Len(addRaw) = Len(addLast.rawBefore) + 1
       /\ \A i \in 1..Len(addLast.rawBefore) :
            \E j \in 1..Len(addRaw) : addRaw[j] = addLast.rawBefore[i]
       /\ addNormalized = normalizeRecords(addRaw)

\* Two adds were accepted after the first record, the last one by request,
\* and the store holds three records.
C27_Witness ==
  /\ LastAccepted
  /\ addLast.channel = "post"
  /\ addCount = 2
  /\ Len(addRaw) = 3

\* ------------------------------------------ claims on concurrent requests
AllResponded == \A r \in 1..MaxRequests : posts[r].pc = "done"

\* C28: when POST requests are handled concurrently, no acknowledged update
\* is lost: once all requests have been answered, the record of every request
\* answered with persisted true is in the raw store.
C28_NoAcknowledgedUpdateLost ==
  (posts # <<>> /\ AllResponded) =>
    \A r \in 1..MaxRequests :
      posts[r].response = "200 persisted true" =>
        \E j \in 1..Len(postRaw) : postRaw[j] = posts[r].record

====
